---- MODULE Spec2Model ----
(***************************************************************************)
(* A model of the UKSM merge engine of mm/ksm.c: the random-sample hash    *)
(* and its delta re-hash, the keyhole lookup of a stable node's page, the  *)
(* stable and unstable two-level trees, the rmap graph and the per-page    *)
(* scan step with the host memory manager's writes, faults and unmaps      *)
(* running beside it.                                                      *)
(*                                                                         *)
(* The module holds several specifications over one set of variables; each *)
(* specification moves its own variables and leaves the others alone:      *)
(*   SpecHash     random_sample_hash / delta_hash            (hs)          *)
(*   SpecKeyhole  get_ksm_page against a concurrent page free (kh)         *)
(*   Spec         the merge engine                            (ks)         *)
(*   SpecPinned, SpecOffline   the engine beside a pinning host and beside *)
(*                memory hot-remove                           (ks)         *)
(*   SpecLadder, SpecCursor, SpecAdmit   the scan ladder: round update,    *)
(*                busy walk, admission of new areas           (ld)         *)
(*   SpecRshash   the hash strength controller                (rh)         *)
(*   SpecBuild    the construction of the ladder              (lb)         *)
(*   SpecOrder    the visit order of an area's pages          (vo)         *)
(*   SpecAppend, SpecTable   the NodeVma lists and the inter-area table    *)
(*                under appends and removals alone            (ks)         *)
(*   SpecTeardown, SpecInsert   the engine beside the teardown of areas    *)
(*                and beside unmaps of ranges                 (ks)         *)
(*   SpecCredit   the cost accounting of page_hash            (rh)         *)
(*   SpecRound, SpecScan   ksm_do_scan: the round boundary and the         *)
(*                budgets of a call                           (ld)         *)
(***************************************************************************)
EXTENDS Integers, Sequences, FiniteSets, TLC

(***************************************************************************)
(* Bounds of the model.                                                    *)
(***************************************************************************)
\* Words per page.  HASH_STRENGTH_FULL is PAGE_SIZE / sizeof(u32) = 1024 in
\* the source; the model keeps the algorithms and shortens the page.
PageWords == 2
\* Length of the loop-back range above HASH_STRENGTH_FULL.  It is 10 in the
\* source (10 < 1024); the model keeps it no longer than the page, as there.
LoopBack == 2
\* Strength changes applied in a row to one stored hash.
MaxDeltaSteps == 2
\* Mappings the host may hold on one KSM page.
MaxMappers == 2
\* Calls of get_ksm_page on one stable node.
MaxLookups == 2
\* Areas (vma slots) the scanner works on, and pages in each of them.
NumSlots == 2
PagesPerSlot == 3
\* Frames the host has beyond one for every virtual page.
SpareFrames == 1
\* Distinct page contents.
NumContents == 3
\* Events of the environment in one run: writes and unmaps of the host,
\* and failures the scanner meets (a busy lock, a pinned page, a failed
\* allocation).
MaxEvents == 2
\* Pages the scanner takes from one area before it moves to the next.
SlotQuota == 3
\* Scan rounds in one run.
MaxRounds == 2
\* Tree nodes of one kind, and stable nodes, alive at a time.
MaxTreeNodes == 3
MaxStableNodes == 3

\* Areas of the ladder model; pages of each (an area is admitted with at
\* least KSM_SCAN_RATIO_MAX / ksm_min_scan_ratio pages).
NumAreas == 3
AreaPages == 125
\* The thrash_threshold in use when the filter is on, in percent.
ThrashPercent == 50
\* pages_merged of an area in one round, and the deduplication ratio that
\* the inter-area table gives an area.
MaxMerged == 2
MaxRatio == 2
VARIABLES hs, kh, ks, ld, rh, lb, vo

(***************************************************************************)
(* u32 arithmetic.  A u32 is the pair <<high 16 bits, low 16 bits>>, so    *)
(* that every operation wraps at 2^32 exactly as in C.                     *)
(***************************************************************************)
RECURSIVE Pow2(_)
Pow2(n) == IF n = 0 THEN 1 ELSE 2 * Pow2(n - 1)

W16 == Pow2(16)

RECURSIVE Xor16(_, _)
Xor16(x, y) ==
    IF x = 0 THEN y
    ELSE IF y = 0 THEN x
    ELSE ((x + y) % 2) + 2 * Xor16(x \div 2, y \div 2)

Xor32(a, b) == <<Xor16(a[1], b[1]), Xor16(a[2], b[2])>>

Add32(a, b) ==
    LET lo == a[2] + b[2]
    IN  <<(a[1] + b[1] + (lo \div W16)) % W16, lo % W16>>

Sub32(a, b) ==
    LET borrow == IF a[2] < b[2] THEN 1 ELSE 0
    IN  <<(a[1] - b[1] - borrow + 2 * W16) % W16, (a[2] - b[2] + W16) % W16>>

\* a << n, for 0 < n < 32
Shl32(a, n) ==
    IF n < 16
    THEN <<(a[1] % Pow2(16 - n)) * Pow2(n) + (a[2] \div Pow2(16 - n)),
           (a[2] % Pow2(16 - n)) * Pow2(n)>>
    ELSE <<(a[2] % Pow2(32 - n)) * Pow2(n - 16), 0>>

\* a >> n, for 0 < n < 32
Shr32(a, n) ==
    IF n < 16
    THEN <<a[1] \div Pow2(n), (a[1] % Pow2(n)) * Pow2(16 - n) + (a[2] \div Pow2(n))>>
    ELSE <<0, a[1] \div Pow2(n - 16)>>

Zero32 == <<0, 0>>
One32 == <<0, 1>>

\* hash_cmp(): 1, -1 or 0
hash_cmp(new_val, node_val) ==
    IF new_val[1] > node_val[1] \/ (new_val[1] = node_val[1] /\ new_val[2] > node_val[2])
    THEN 1
    ELSE IF new_val = node_val THEN 0 ELSE -1

(***************************************************************************)
(* The adaptive hash.                                                      *)
(***************************************************************************)
shiftl == 8
shiftr == 12

HASH_STRENGTH_FULL == PageWords
HASH_STRENGTH_MAX == HASH_STRENGTH_FULL + LoopBack

\* u32 hash = 0xdeadbeef
HashSeed == <<57005, 48879>>

\* One round of HASH_FROM_TO: hash += key[pos]; hash += hash << shiftl;
\* hash ^= hash >> shiftr.
MixUp(hash, k) ==
    LET h1 == Add32(hash, k)
        h2 == Add32(h1, Shl32(h1, shiftl))
    IN  Xor32(h2, Shr32(h2, shiftr))

\* MixDown with the second un-xor (hash ^= hash >> (shiftr*2)) left out.
MixDown_one_unxor(hash, k) ==
    LET h1 == Xor32(hash, Shr32(hash, shiftr))
        h3 == Sub32(h1, Shl32(h1, shiftl))
        h4 == Add32(h3, Shl32(h3, shiftl * 2))
    IN  Sub32(h4, k)

\* One round of HASH_FROM_DOWN_TO: the five statements of the macro.
MixDown(hash, k) ==
    LET h1 == Xor32(hash, Shr32(hash, shiftr))
        h2 == Xor32(h1, Shr32(h1, shiftr * 2))
        h3 == Sub32(h2, Shl32(h2, shiftl))
        h4 == Add32(h3, Shl32(h3, shiftl * 2))
    IN  Sub32(h4, k)

\* for (index = from; index < to; index++)
RECURSIVE HASH_FROM_TO(_, _, _, _, _)
HASH_FROM_TO(rn, key, hash, from, to) ==
    IF from < to
    THEN HASH_FROM_TO(rn, key, MixUp(hash, key[rn[from]]), from + 1, to)
    ELSE hash

\* for (index = from - 1; index >= to; index--)
RECURSIVE HASH_FROM_DOWN_TO(_, _, _, _, _)
HASH_FROM_DOWN_TO(rn, key, hash, from, to) ==
    IF from - 1 >= to
    THEN HASH_FROM_DOWN_TO(rn, key, MixDown(hash, key[rn[from - 1]]), from - 1, to)
    ELSE hash

random_sample_hash(rn, key, strength) ==
    LET loop == IF strength > HASH_STRENGTH_FULL THEN HASH_STRENGTH_FULL ELSE strength
        h1 == HASH_FROM_TO(rn, key, HashSeed, 0, loop)
    IN  IF strength > HASH_STRENGTH_FULL
        THEN HASH_FROM_TO(rn, key, h1, 0, strength - HASH_STRENGTH_FULL)
        ELSE h1

delta_hash(rn, key, from, to, hash) ==
    IF to > from
    THEN IF from >= HASH_STRENGTH_FULL
         THEN HASH_FROM_TO(rn, key, hash, from - HASH_STRENGTH_FULL,
                           to - HASH_STRENGTH_FULL)
         ELSE IF to <= HASH_STRENGTH_FULL
         THEN HASH_FROM_TO(rn, key, hash, from, to)
         ELSE HASH_FROM_TO(rn, key,
                           HASH_FROM_TO(rn, key, hash, from, HASH_STRENGTH_FULL),
                           0, to - HASH_STRENGTH_FULL)
    ELSE IF from <= HASH_STRENGTH_FULL
         THEN HASH_FROM_DOWN_TO(rn, key, hash, from, to)
         ELSE IF to >= HASH_STRENGTH_FULL
         THEN HASH_FROM_DOWN_TO(rn, key, hash, from - HASH_STRENGTH_FULL,
                                to - HASH_STRENGTH_FULL)
         ELSE HASH_FROM_DOWN_TO(rn, key,
                                HASH_FROM_DOWN_TO(rn, key, hash,
                                                  from - HASH_STRENGTH_FULL, 0),
                                HASH_STRENGTH_FULL, to)

(***************************************************************************)
(* Inputs of the hash: page words and the permutation random_nums.         *)
(***************************************************************************)
WordIdx == 0..(PageWords - 1)

\* 0, 0xffffffff, 0x80000001 and 0x12345678: carries, borrows and the top
\* bit all occur.
WordVals == {<<0, 0>>, <<65535, 65535>>, <<32768, 1>>, <<4660, 22136>>}

Perms == {f \in [WordIdx -> WordIdx] : \A i, j \in WordIdx : f[i] = f[j] => i = j}

\* hs: the page (key), random_nums (rn), the strength the stored hash was
\* last brought to, the stored hash and the strength before the last step.
HashInit ==
    \E key \in [WordIdx -> WordVals], rn \in Perms, s \in 1..HASH_STRENGTH_MAX :
        hs = [key |-> key, rn |-> rn, strength |-> s, prev |-> s,
              hash |-> random_sample_hash(rn, key, s), steps |-> 0]

HashIdle ==
    hs = [key |-> [i \in WordIdx |-> Zero32], rn |-> [i \in WordIdx |-> i],
          strength |-> 1, prev |-> 1, hash |-> Zero32, steps |-> 0]

\* One strength change: the stored hash is brought from hs.strength to `to`.
DeltaStep ==
    \E to \in 1..HASH_STRENGTH_MAX :
        /\ hs.steps < MaxDeltaSteps
        /\ hs' = [hs EXCEPT !.strength = to, !.prev = hs.strength,
                            !.hash = delta_hash(hs.rn, hs.key, hs.strength, to, hs.hash),
                            !.steps = hs.steps + 1]
        /\ UNCHANGED <<kh, ks, ld, rh, lb, vo>>

(***************************************************************************)
(* The keyhole lookup get_ksm_page() of one stable node, with the host      *)
(* unmapping, freeing and reusing the page beside it.  The host's free of   *)
(* a page is two steps, as in the page allocator: the reference count       *)
(* reaches zero, and then page->mapping is reset.                           *)
(***************************************************************************)
\* kh.mapping   page->mapping: "node" is the stable node plus the ANON|KSM
\*              flags, "null" the reset value, "other" any other user's value
\* kh.count     page_count(page)
\* kh.hostrefs  the references held by the host's mappings of the page
\* kh.pc        where get_ksm_page stands
\* kh.linked    the stable node is in the stable graph
\* kh.passed1   the first comparison of this call found the expected mapping
\* kh.calls     calls of get_ksm_page made so far
KeyholeInit ==
    \E n \in 1..MaxMappers :
        kh = [mapping |-> "node", count |-> n, hostrefs |-> n, pc |-> "idle",
              linked |-> TRUE, passed1 |-> FALSE, calls |-> 0]

KeyholeIdle ==
    kh = [mapping |-> "node", count |-> 1, hostrefs |-> 1, pc |-> "idle",
          linked |-> TRUE, passed1 |-> FALSE, calls |-> 0]

\* page->mapping != expected_mapping, negated
expected_mapping(k) == k.mapping = "node"

\* The second comparison left out: whatever the page holds now is accepted.
expected_mapping_unchecked(k) == TRUE

\* The second comparison, after the reference was taken (line 555).
recheck_mapping(k) == expected_mapping(k)

\* put_page(): the count drops; at zero the page is freed, which resets
\* page->mapping.
kh_put_page(k) ==
    [k EXCEPT !.count = k.count - 1,
              !.mapping = IF k.count = 1 THEN "null" ELSE k.mapping]

\* A caller (remove_rmap_item_from_tree, stable_tree_search, ...) looks the
\* node's page up.
KhCall ==
    /\ kh.pc = "idle"
    /\ kh.linked
    /\ kh.calls < MaxLookups
    /\ kh' = [kh EXCEPT !.pc = "check1", !.calls = kh.calls + 1, !.passed1 = FALSE]
    /\ UNCHANGED <<hs, ks, ld, rh, lb, vo>>

\* if (page->mapping != expected_mapping) goto stale;
KhCheck1 ==
    /\ kh.pc = "check1"
    /\ kh' = [kh EXCEPT !.pc = IF expected_mapping(kh) THEN "getref" ELSE "stale",
                        !.passed1 = expected_mapping(kh)]
    /\ UNCHANGED <<hs, ks, ld, rh, lb, vo>>

\* if (!get_page_unless_zero(page)) goto stale;
KhGetRef ==
    /\ kh.pc = "getref"
    /\ kh' = IF kh.count > 0
             THEN [kh EXCEPT !.count = kh.count + 1, !.pc = "check2"]
             ELSE [kh EXCEPT !.pc = "stale"]
    /\ UNCHANGED <<hs, ks, ld, rh, lb, vo>>

\* if (page->mapping != expected_mapping) { put_page(page); goto stale; }
\* return page;
KhCheck2 ==
    /\ kh.pc = "check2"
    /\ kh' = IF recheck_mapping(kh)
             THEN [kh EXCEPT !.pc = "returned"]
             ELSE [kh_put_page(kh) EXCEPT !.pc = "stale"]
    /\ UNCHANGED <<hs, ks, ld, rh, lb, vo>>

\* stale: remove_node_from_stable_tree(); return NULL;
KhStale ==
    /\ kh.pc = "stale"
    /\ kh' = [kh EXCEPT !.linked = FALSE, !.pc = "none"]
    /\ UNCHANGED <<hs, ks, ld, rh, lb, vo>>

\* The caller is done with the page it was given: put_page(page).
KhPut ==
    /\ kh.pc = "returned"
    /\ kh' = [kh_put_page(kh) EXCEPT !.pc = "idle"]
    /\ UNCHANGED <<hs, ks, ld, rh, lb, vo>>

\* The host maps the KSM page once more (fork).
KhHostMap ==
    /\ kh.hostrefs > 0
    /\ kh.hostrefs < MaxMappers
    /\ kh' = [kh EXCEPT !.hostrefs = kh.hostrefs + 1, !.count = kh.count + 1]
    /\ UNCHANGED <<hs, ks, ld, rh, lb, vo>>

\* The host drops one mapping: the reference count goes down, and nothing
\* else happens yet.
KhHostUnmap ==
    /\ kh.hostrefs > 0
    /\ kh' = [kh EXCEPT !.hostrefs = kh.hostrefs - 1, !.count = kh.count - 1]
    /\ UNCHANGED <<hs, ks, ld, rh, lb, vo>>

\* The free path of a page whose count the host brought to zero resets
\* page->mapping.
KhHostFreeReset ==
    /\ kh.count = 0
    /\ kh.mapping # "null"
    /\ kh' = [kh EXCEPT !.mapping = "null"]
    /\ UNCHANGED <<hs, ks, ld, rh, lb, vo>>

\* The freed page is handed out again: its count is set before its new
\* owner writes page->mapping.
KhHostAlloc ==
    /\ kh.count = 0
    /\ kh.mapping = "null"
    /\ kh' = [kh EXCEPT !.count = 1, !.hostrefs = 1]
    /\ UNCHANGED <<hs, ks, ld, rh, lb, vo>>

\* The new owner of the page sets page->mapping; it is never the key of
\* this stable node.
KhHostSetMapping ==
    /\ kh.count > 0
    /\ kh.hostrefs > 0
    /\ kh.mapping = "null"
    /\ kh' = [kh EXCEPT !.mapping = "other"]
    /\ UNCHANGED <<hs, ks, ld, rh, lb, vo>>

KeyholeNext ==
    \/ KhCall \/ KhCheck1 \/ KhGetRef \/ KhCheck2 \/ KhStale \/ KhPut
    \/ KhHostMap \/ KhHostUnmap \/ KhHostFreeReset \/ KhHostAlloc \/ KhHostSetMapping

(***************************************************************************)
(* The merge engine.  ks is one record: the host's memory (frames, page    *)
(* tables), the scanner's rmap items, the two trees, the stable graph, the *)
(* counters, the inter-area table and the scanner's position inside the    *)
(* page it is working on.  Every function of the source is an operator     *)
(* from a state to a state (or to a record holding the state and the       *)
(* function's result).                                                     *)
(***************************************************************************)
\* F applied to v: the value v is computed once and named by F's parameter.
Bind(v, F(_)) == F(v)

Slots == 1..NumSlots
NumVP == NumSlots * PagesPerSlot
VPages == 1..NumVP
SlotOf(vp) == ((vp - 1) \div PagesPerSlot) + 1
PagesOf(slot) == {vp \in VPages : SlotOf(vp) = slot}

NumFrames == NumVP + SpareFrames
Frames == 1..NumFrames
\* a NULL struct page pointer, a NULL node pointer, a pte that is not present
NoFrame == 0
NoNode == 0
NoItem == 0

Contents == 1..NumContents
\* The words of a page of content c.  The last content differs from the
\* others in word 0; the others differ from each other only in the later
\* words, so that a hash that samples word 0 alone collides on them.
ContentWords(c) ==
    [i \in WordIdx |->
        IF i = 0 THEN (IF c = NumContents THEN <<4660, 22137>> ELSE <<4660, 22136>>)
        ELSE <<0, c>>]
\* random_nums as init_random_sampling may leave it: the identity.
RandomNums == [i \in WordIdx |-> i]

HashTab ==
    [c \in Contents |->
        [st \in 1..HASH_STRENGTH_MAX |-> random_sample_hash(RandomNums, ContentWords(c), st)]]

\* static unsigned long hash_strength = HASH_STRENGTH_FULL >> 4: a strength
\* that samples a part of the page; at least 1 on the shortened page.
InitStrength == IF HASH_STRENGTH_FULL \div 16 > 0 THEN HASH_STRENGTH_FULL \div 16 ELSE 1

UTreeIds == 1..MaxTreeNodes
STreeIds == 1..MaxTreeNodes
NodeIds == 1..MaxStableNodes
ksm_vma_table_size == NumSlots + 1
TableIdx == 0..(ksm_vma_table_size - 1)

\* intertab_vma_offset()
intertab_vma_offset(i, j) ==
    IF i < j THEN (j * (j + 1)) \div 2 + i ELSE (i * (i + 1)) \div 2 + j

InterIdx == 0..intertab_vma_offset(ksm_vma_table_size - 1, ksm_vma_table_size - 1)

\* kmem_cache_zalloc'ed structs
Item0 ==
    [exists |-> FALSE, stable |-> FALSE, unstable |-> FALSE, hash_max |-> Zero32,
     append_round |-> 0, page |-> NoFrame, tree_node |-> NoNode, head |-> NoNode]
TreeNode0 == [hash |-> Zero32, count |-> 0, members |-> {}]
StableNode0 ==
    [live |-> FALSE, kpfn |-> NoFrame, hash_max |-> Zero32, tree_node |-> NoNode,
     hlist |-> <<>>]
Slot0 ==
    [ksm_index |-> -1, pages_merged |-> 0, visited |-> {}, qcount |-> 0,
     fully_scanned |-> FALSE, slot_scanned |-> FALSE, pool |-> FALSE]
Pte0 == [f |-> NoFrame, w |-> FALSE]
Loc0 ==
    [vp |-> NoItem, tree |-> NoItem, kpage |-> NoFrame, hash |-> Zero32,
     orig_pte |-> Pte0, wprt_pte1 |-> Pte0, orig_pte1 |-> Pte0, wprt_pte2 |-> Pte0,
     saved_kind |-> "anon", saved_node |-> NoNode]

\* The state the scanner starts from: every virtual page of every area is
\* mapped writable to an anonymous frame of its own, nothing is scanned.
KsmStart(cont) ==
    [content |-> [f \in Frames |-> IF f \in VPages THEN cont[f] ELSE 1],
     pkind |-> [f \in Frames |-> IF f \in VPages THEN "anon" ELSE "free"],
     pnode |-> [f \in Frames |-> NoNode],
     owner |-> [f \in Frames |-> IF f \in VPages THEN f ELSE NoItem],
     ref |-> [f \in Frames |-> 0],
     lost |-> {},
     pte |-> [vp \in VPages |-> [f |-> vp, w |-> TRUE]],
     item |-> [vp \in VPages |-> Item0],
     utn |-> [t \in UTreeIds |-> TreeNode0],
     uroot |-> {},
     ulist |-> {},
     stn |-> [t \in STreeIds |-> TreeNode0],
     sroot |-> [x \in 0..1 |-> {}],
     slist |-> [x \in 0..1 |-> {}],
     stable_tree_index |-> 0,
     rootp |-> 0,
     snode |-> [n \in NodeIds |-> StableNode0],
     snlist |-> <<>>,
     pages_shared |-> 0,
     pages_sharing |-> 0,
     pages_unshared |-> 0,
     pages_scanned |-> 0,
     pages_scanned_last |-> 0,
     scan_round |-> 1,
     hash_strength |-> InitStrength,
     slot |-> [sl \in Slots |-> Slot0],
     vma_table |-> [x \in TableIdx |-> 0],
     index_end |-> 0,
     table_num |-> 0,
     intertab |-> [x \in InterIdx |-> 0],
     cursor |-> 1,
     round_finished |-> FALSE,
     pc |-> "idle",
     loc |-> Loc0,
     alias_ok |-> TRUE,
     bug |-> FALSE,
     merged |-> {},
     paired |-> FALSE,
     pruned |-> FALSE,
     neg |-> 0,
     coll |-> NoItem,
     repointed |-> FALSE,
     plock |-> {},
     anon_locked |-> FALSE,
     unlocked_list |-> FALSE,
     alloc_bug |-> FALSE,
     uaf |-> FALSE,
     mmap |-> [sl \in Slots |-> 0],
     pin |-> NoFrame,
     offlining |-> FALSE,
     offrange |-> <<0, 0>>,
     last |-> "init",
     events |-> 0,
     rounds |-> 0]

\* The contents the areas start with: all pages equal, or the pages of the
\* last area different from the others.
InitContents ==
    {[vp \in VPages |-> 1],
     [vp \in VPages |-> IF SlotOf(vp) = NumSlots THEN 2 ELSE 1]}

KsmInit == \E cont \in InitContents : ks = KsmStart(cont)

KsmIdle == ks = KsmStart([vp \in VPages |-> 1])

\* the areas start with different contents
KsmApart == ks = KsmStart([vp \in VPages |-> IF SlotOf(vp) = NumSlots THEN 2 ELSE 1])

(***************************************************************************)
(* Pages: the host's struct page fields the scanner reads.                 *)
(***************************************************************************)
PageKsm(s, f) == s.pkind[f] = "ksm"
PageAnon(s, f) == s.pkind[f] \in {"anon", "ksm"}
page_stable_node(s, f) == IF PageKsm(s, f) THEN s.pnode[f] ELSE NoNode
Mappers(s, f) == {vp \in VPages : s.pte[vp].f = f}
pages_identical(s, f, g) == s.content[f] = s.content[g]
page_hash(s, f) == HashTab[s.content[f]][s.hash_strength]

\* A frame nobody maps and nobody holds goes back to the allocator, which
\* resets page->mapping.
Reap(s) ==
    LET dead == {f \in Frames : /\ s.pkind[f] # "free"
                                 /\ Mappers(s, f) = {}
                                 /\ s.ref[f] = 0
                                 /\ f \notin s.lost}
    IN  [s EXCEPT !.pkind = [f \in Frames |-> IF f \in dead THEN "free" ELSE s.pkind[f]],
                  !.pnode = [f \in Frames |-> IF f \in dead THEN NoNode ELSE s.pnode[f]],
                  !.owner = [f \in Frames |-> IF f \in dead THEN NoItem ELSE s.owner[f]],
                  !.content = [f \in Frames |-> IF f \in dead THEN 1 ELSE s.content[f]]]

\* down_read_trylock that succeeds, and up_read, of the mmap_sem of the
\* area's mm: mmap counts the read locks the scanner holds through the area
down_read(s, sl) == [s EXCEPT !.mmap[sl] = @ + 1]
up_read(s, sl) == [s EXCEPT !.mmap[sl] = @ - 1]

get_page(s, f) == [s EXCEPT !.ref[f] = @ + 1]
put_page(s, f) == Reap([s EXCEPT !.ref[f] = @ - 1])

FreeFrames(s) == {f \in Frames : s.pkind[f] = "free"}
\* the frame the allocator hands out next
NextFrame(s) == CHOOSE f \in FreeFrames(s) : \A g \in FreeFrames(s) : f <= g

\* set_page_stable_node(page, stable_node)
set_page_stable_node(s, f, n) == [s EXCEPT !.pkind[f] = "ksm", !.pnode[f] = n]

\* A replace_page that does not compare the pte with the one it protected.
pte_same_unchecked(a, b) == TRUE
\* pte_same()
pte_same(a, b) == a = b

\* The scanner points the pte of vp at frame g, read-only.  alias_ok records
\* whether the page it replaced was mapped read-only there and byte-equal
\* to g at this moment, merged the places of the scanner that repointed,
\* repointed that the scan step under way repointed a pte.
Repoint(s, vp, g) ==
    LET old == s.pte[vp]
    IN  [s EXCEPT !.pte[vp] = [f |-> g, w |-> FALSE],
                  !.merged = @ \cup {s.pc},
                  !.repointed = TRUE,
                  !.alias_ok = s.alias_ok /\ old.f # NoFrame /\ ~old.w
                               /\ s.content[old.f] = s.content[g]]
(***************************************************************************)
(* The scan ladder and the life of an area (struct vma_slot): admission,   *)
(* the rung cursor of ksm_do_scan(), the round boundary, removal.          *)
(***************************************************************************)
Areas == 1..NumAreas
Mms == 1..2
\* the process (mm) of an area: the last area is alone in its process
MmOf(a) == IF a = NumAreas THEN 2 ELSE 1
\* &rung->vma_list, the head of a rung's list, where a slot is expected
NoArea == 0

KSM_SCAN_RATIO_MAX == 125
ksm_min_scan_ratio == 1
ksm_scan_ratio_delta == 5

RECURSIVE LadderSize(_)
\* ksm_init(): the number of rungs, counted from a scan ratio sr
LadderSize(sr) ==
    IF sr < KSM_SCAN_RATIO_MAX THEN 1 + LadderSize(sr * ksm_scan_ratio_delta) ELSE 1

ksm_scan_ladder_size == LadderSize(ksm_min_scan_ratio)
Rungs == 0..(ksm_scan_ladder_size - 1)

RECURSIVE scan_ratio(_)
\* init_scan_ladder(): the scan ratio of rung i
scan_ratio(i) == IF i = 0 THEN ksm_min_scan_ratio ELSE ksm_scan_ratio_delta * scan_ratio(i - 1)

\* get_vma_random_scan_num()
get_vma_random_scan_num(L, a, ratio) == (L.pages[a] * ratio) \div KSM_SCAN_RATIO_MAX

\* slot->rung of a slot that is on no rung (NULL)
NoRung == -1

\* the sizes of the areas that the host reports: a single page, and
\* AreaPages pages
AreaSizes == {1, AreaPages}

\* the thrash_threshold values written through sysfs: off, or ThrashPercent
ThrashValues == {0, ThrashPercent}

------------------------------------------------------------------------------
(* Lists.  A rung's vma_list is the sequence of its slots from the head.   *)
ListDel(l, a) == SelectSeq(l, LAMBDA x : x # a)

ListPos(l, a) == CHOOSE i \in 1..Len(l) : l[i] = a

\* slot->ksm_list.next: the slot after a, the list head after the last
ListNext(l, a) == IF ListPos(l, a) = Len(l) THEN NoArea ELSE l[ListPos(l, a) + 1]

\* rung->vma_list.next: the first slot, the head itself in an empty list
ListFirst(l) == IF l = <<>> THEN NoArea ELSE l[1]

InList(l) == {l[i] : i \in 1..Len(l)}

\* slot->rung
RungOf(L, a) == CHOOSE r \in Rungs : a \in InList(L.list[r])

OnLadder(L) == UNION {InList(L.list[r]) : r \in Rungs}

\* ksm_vma_slot_num
ksm_vma_slot_num(L) == L.slot_num

InTable(L) == InList(L.tab) \ {NoArea}

\* the slots in news are on the new list (ksm_vma_add_new() has run for
\* them), the other areas do not exist
LadderStart(t, news) ==
    [st |-> [a \in Areas |-> IF a \in news THEN "new" ELSE "gone"],
     list |-> [r \in Rungs |-> <<>>],
     cur |-> [r \in Rungs |-> NoArea],
     fin |-> [r \in Rungs |-> FALSE],
     scanned |-> [a \in Areas |-> FALSE],
     tab |-> <<>>,
     merged |-> [a \in Areas |-> 0],
     cowed |-> [a \in Areas |-> 0],
     thrash |-> t,
     sem |-> [m \in Mms |-> "free"],
     exiting |-> [m \in Mms |-> FALSE],
     pc |-> "sleep",
     rung |-> 0,
     busy_mm |-> 0,
     bug |-> FALSE,
     last |-> "init",
     from |-> NoArea,
     was |-> [a \in Areas |-> 0],
     ratio |-> [a \in Areas |-> 0],
     thrashed |-> {},
     freed_read |-> {},
     scanned_removed |-> FALSE,
     pages |-> [a \in Areas |-> AreaPages],
     srung |-> [a \in Areas |-> NoRung],
     vma_num |-> [r \in Rungs |-> 0],
     slot_num |-> 0,
     budget |-> [r \in Rungs |-> 0],
     rest |-> 0,
     full |-> [a \in Areas |-> FALSE],
     calls |-> 0]

LadderIdle == ld = LadderStart(0, {})

\* one or two areas and a thrash_threshold
LadderInit == \E t \in ThrashValues, a \in 1..2 : ld = LadderStart(t, 1..a)

\* every area, the thrashing filter off
CursorInit == ld = LadderStart(0, Areas)

------------------------------------------------------------------------------
\* vma_rung_enter(): leave the old rung, moving its cursor off the slot, and
\* enter at the head of the first rung from r upwards where the slot gets
\* pages to scan.
LeaveRung(L, a) ==
    LET old == L.srung[a]
        c1 == IF L.cur[old] = a THEN ListNext(L.list[old], a) ELSE L.cur[old]
        l1 == ListDel(L.list[old], a)
    IN  [L EXCEPT !.list[old] = l1,
                  !.vma_num[old] = @ - 1,
                  !.cur[old] = IF c1 = NoArea THEN ListFirst(l1) ELSE c1,
                  !.fin[old] = IF c1 = NoArea THEN TRUE ELSE @]

RECURSIVE EnterRung(_, _, _)
EnterRung(L, a, r) ==
    IF get_vma_random_scan_num(L, a, scan_ratio(r)) = 0
    THEN IF r + 1 \in Rungs THEN EnterRung(L, a, r + 1) ELSE [L EXCEPT !.bug = TRUE]
    ELSE [L EXCEPT !.cur[r] = IF L.list[r] = <<>> THEN a ELSE @,
                   !.list[r] = <<a>> \o @,
                   !.srung[a] = r,
                   !.vma_num[r] = @ + 1]

vma_rung_enter(L, a, r) == EnterRung(LeaveRung(L, a), a, r)

vma_rung_down_to_bottom(L, a) ==
    IF RungOf(L, a) = 0 THEN L ELSE vma_rung_enter(L, a, 0)

vma_rung_up_to_top(L, a) ==
    IF RungOf(L, a) = ksm_scan_ladder_size - 1 THEN L
    ELSE vma_rung_enter(L, a, ksm_scan_ladder_size - 1)

vma_rung_up(L, a) ==
    IF RungOf(L, a) = ksm_scan_ladder_size - 1 THEN L
    ELSE vma_rung_enter(L, a, RungOf(L, a) + 1)

vma_rung_down(L, a) ==
    IF RungOf(L, a) = 0 THEN L ELSE vma_rung_enter(L, a, RungOf(L, a) - 1)

\* enter_inter_vma_table() on the ladder: the first free index of ksm_vma_table
EnterInterVmaTable(L, a) ==
    IF a \in InTable(L) THEN L
    ELSE IF \E i \in 1..Len(L.tab) : L.tab[i] = NoArea
         THEN [L EXCEPT !.tab[CHOOSE i \in 1..Len(L.tab) :
                               /\ L.tab[i] = NoArea
                               /\ \A j \in 1..(i - 1) : L.tab[j] # NoArea] = a]
         ELSE [L EXCEPT !.tab = Append(@, a)]

\* ksm_del_vma_slot(): the slot leaves its rung and the table and is freed
ksm_del_vma_slot(L, a) ==
    LET L1 == LeaveRung(L, a)
        i == IF a \in InTable(L) THEN ListPos(L.tab, a) ELSE 0
        t1 == IF i = 0 THEN L.tab
              ELSE IF i = Len(L.tab) THEN SubSeq(L.tab, 1, i - 1)
              ELSE [L.tab EXCEPT ![i] = NoArea]
    IN  [L1 EXCEPT !.tab = t1, !.st[a] = "gone", !.scanned[a] = FALSE,
                   !.merged[a] = 0, !.cowed[a] = 0,
                   !.srung[a] = NoRung,
                   !.bug = @ \/ L.slot_num = 0,
                   !.slot_num = IF @ = 0 THEN 0 ELSE @ - 1]

RECURSIVE DelAll(_, _)
DelAll(L, as) ==
    IF as = {} THEN L
    ELSE LET a == CHOOSE x \in as : \A y \in as : x <= y
         IN  DelAll(ksm_del_vma_slot(L, a), as \ {a})

\* cleanup_vma_slots(): drain the delete list
cleanup_vma_slots(L) == DelAll(L, {a \in Areas : L.st[a] = "del"})

\* (the same without the test of pages_to_scan)
ksm_vma_enter_any_size(L, a, nomem) ==
    LET L1 == [L EXCEPT !.cur[0] = IF L.list[0] = <<>> THEN a ELSE @,
                        !.list[0] = <<a>> \o @,
                        !.srung[a] = 0,
                        !.vma_num[0] = @ + 1]
    IN  IF nomem THEN [L1 EXCEPT !.st[a] = "noadd"]
        ELSE [L1 EXCEPT !.st[a] = "in", !.slot_num = @ + 1]

\* ksm_vma_enter(): the slot is put on rung 0 before its pool is allocated;
\* nomem: one of the two kzalloc(GFP_NOWAIT) fails.  The result is the
\* ladder and whether the slot was added.
ksm_vma_enter(L, a, nomem) ==
    IF get_vma_random_scan_num(L, a, scan_ratio(0)) > 0
    THEN LET L1 == [L EXCEPT !.cur[0] = IF L.list[0] = <<>> THEN a ELSE @,
                             !.list[0] = <<a>> \o @,
                             !.srung[a] = 0,
                             !.vma_num[0] = @ + 1]
         IN  IF nomem THEN [L1 EXCEPT !.st[a] = "noadd"]
             ELSE [L1 EXCEPT !.st[a] = "in", !.slot_num = @ + 1]
    ELSE [L EXCEPT !.st[a] = "noadd"]

\* ksm_enter_all_slots(): ksm_vma_enter() for every slot of the new list;
\* a slot that was not added goes to the noadd list
RECURSIVE EnterAll(_, _, _)
EnterAll(L, as, nomem) ==
    IF as = {} THEN L
    ELSE LET a == CHOOSE x \in as : \A y \in as : x <= y
         IN  EnterAll(ksm_vma_enter(L, a, a \in nomem), as \ {a}, nomem)

ksm_enter_all_slots(L, nomem) == EnterAll(L, {a \in Areas : L.st[a] = "new"}, nomem)

\* cal_dedup_ratio() of a slot of the table, which has pages_scanned and
\* pages_merged above 0: raw is the ratio lines 2908-2933 compute from the
\* inter-area table; then the thrashing filter.
Thrashing(L, a) ==
    /\ L.thrash # 0
    /\ L.merged[a] # 0
    /\ (L.cowed[a] * 100) \div L.merged[a] > L.thrash

cal_dedup_ratio(L, a, raw) ==
    IF L.thrash = 0 THEN raw
    ELSE IF Thrashing(L, a) THEN 0
    ELSE (raw * (L.merged[a] - L.cowed[a])) \div L.merged[a]

SeqSum(f, l) ==
    LET S[i \in 0..Len(l)] == IF i = 0 THEN 0
                              ELSE S[i - 1] + (IF l[i] = NoArea THEN 0 ELSE f[l[i]])
    IN  S[Len(l)]

\* round_update_ladder(), first loop over the table: up or down by the mean
RECURSIVE MoveTabled(_, _, _, _)
MoveTabled(L, dr, threshold, i) ==
    IF i > Len(L.tab) THEN L
    ELSE LET a == L.tab[i]
         IN  IF a = NoArea THEN MoveTabled(L, dr, threshold, i + 1)
             ELSE MoveTabled([(IF dr[a] # 0 /\ dr[a] >= threshold
                               THEN vma_rung_up(L, a)
                               ELSE vma_rung_down(L, a))
                                 EXCEPT !.scanned[a] = FALSE],
                             dr, threshold, i + 1)

\* second loop: a slot scanned in the round that never reached the table
RECURSIVE MoveScanned(_, _)
MoveScanned(L, as) ==
    IF as = {} THEN L
    ELSE LET a == CHOOSE x \in as :
                     \A y \in as : \/ RungOf(L, x) < RungOf(L, y)
                                   \/ /\ RungOf(L, x) = RungOf(L, y)
                                      /\ ListPos(L.list[RungOf(L, x)], x)
                                            <= ListPos(L.list[RungOf(L, x)], y)
         IN  MoveScanned(vma_rung_down(L, a), as \ {a})

RoundUpdateLadder(L, raw) ==
    LET dr == [a \in Areas |-> IF a \in InTable(L) THEN cal_dedup_ratio(L, a, raw[a]) ELSE 0]
        \* dedup_ratio_mean /= ksm_vma_slot_num
        oops == ksm_vma_slot_num(L) = 0
        mean == SeqSum(dr, L.tab) \div ksm_vma_slot_num(L)
        L1 == MoveTabled(L, dr, mean, 1)
        L2 == MoveScanned(L1, {a \in OnLadder(L1) : L1.scanned[a]})
    IN  IF oops THEN [L EXCEPT !.bug = TRUE, !.last = "round"]
        ELSE [L2 EXCEPT !.tab = <<>>,
                        !.fin = [r \in Rungs |-> FALSE],
                        !.scanned = [a \in Areas |-> FALSE],
                        !.merged = [a \in Areas |-> 0],
                        !.cowed = [a \in Areas |-> 0],
                        !.was = [a \in Areas |-> IF a \in OnLadder(L) THEN RungOf(L, a) ELSE 0],
                        !.ratio = dr,
                        !.thrashed = {a \in OnLadder(L) : Thrashing(L, a)},
                        !.last = "round"]

------------------------------------------------------------------------------
\* ksm_scan_thread(): ksm_enter_all_slots(), then ksm_do_scan() starts.
\* Here the pool allocations of ksm_vma_enter() succeed; AdmitWake is the
\* step with the allocations failing.
LadderWake ==
    /\ ~ld.bug
    /\ ld.pc = "sleep"
    /\ ld' = [ksm_enter_all_slots(ld, {}) EXCEPT
                 !.pc = "top", !.last = "step",
                 !.was = [a \in Areas |-> 0],
                 !.ratio = [a \in Areas |-> 0],
                 !.thrashed = {}]
    /\ UNCHANGED <<hs, kh, ks, rh, lb, vo>>

\* ksm_do_scan(), one turn of the loop over a rung with pages to scan, up
\* to the rescan label: rung->pages_to_scan--, cleanup_vma_slots().  What
\* each rung has left of its budget is an input.
LadderTurn ==
    /\ ~ld.bug
    /\ ld.pc = "top"
    /\ \E r \in Rungs :
          /\ ld.list[r] # <<>>
          /\ LET L == cleanup_vma_slots(ld)
             IN  ld' = [L EXCEPT !.rung = r,
                                 !.pc = IF L.list[r] = <<>> THEN "top" ELSE "rescan",
                                 !.last = "step"]
    /\ UNCHANGED <<hs, kh, ks, rh, lb, vo>>

\* What cmp_and_merge_page() does to the counters of the ladder:
\* "none": the page is not merged; "old": it joins a stable node that no
\* area has joined in this round; "join": it joins a node that area b has
\* joined in this round (inc_vma_intertab_pair() is called for the areas
\* whose node_vma has last_update = ksm_scan_round); "new": it makes a new
\* stable node with a page that area b has put into the unstable tree in
\* this round, and stable_tree_append() runs for both.
Merges == {"none", "old", "join", "new"}

MergeCan(L, a, kind, b) ==
    CASE kind = "none" -> b = NoArea
      [] kind = "old"  -> b = NoArea /\ L.merged[a] < MaxMerged
      [] kind = "join" -> /\ b \in OnLadder(L)
                          /\ L.merged[b] > 0
                          /\ L.merged[a] < MaxMerged
      [] kind = "new"  -> /\ b \in OnLadder(L)
                          /\ L.scanned[b]
                          /\ IF a = b THEN L.merged[a] + 1 < MaxMerged
                             ELSE L.merged[a] < MaxMerged /\ L.merged[b] < MaxMerged

MergeCount(L, a, kind, b) ==
    CASE kind = "none" -> L
      [] kind = "old"  -> [L EXCEPT !.merged[a] = @ + 1]
      [] kind = "join" -> [EnterInterVmaTable(EnterInterVmaTable(L, a), b)
                              EXCEPT !.merged[a] = @ + 1]
      [] kind = "new"  -> [EnterInterVmaTable(EnterInterVmaTable(L, b), a)
                              EXCEPT !.merged = [x \in Areas |->
                                                   L.merged[x] + (IF x = a THEN 1 ELSE 0)
                                                               + (IF x = b THEN 1 ELSE 0)]]

\* The scan of one page of the slot with its mmap_sem held, and the move of
\* the cursor: lines 3684-3714.  adv: the slot has used up its pages_to_scan.
ScanSlot(L, a, kind, b, adv) ==
    LET r == L.rung
        L1 == [L EXCEPT !.scanned[a] = TRUE,
                        !.scanned_removed = @ \/ L.st[a] # "in"]
        L2 == MergeCount(L1, a, kind, b)
        nxt == ListNext(L.list[r], a)
    IN  IF ~adv THEN L2
        ELSE IF nxt = NoArea
             THEN [L2 EXCEPT !.fin[r] = TRUE, !.cur[r] = ListFirst(L.list[r])]
             ELSE [L2 EXCEPT !.cur[r] = nxt]

\* try_down_read_slot_mmap_sem() on the slot under the cursor, at the rescan
\* label of ksm_do_scan().
LadderLock ==
    /\ ~ld.bug
    /\ ld.pc = "rescan"
    /\ LET r == ld.rung
           a == ld.cur[r]
       IN  IF a = NoArea
           THEN ld' = [ld EXCEPT !.bug = TRUE, !.last = "step"]
           ELSE IF ld.st[a] = "del"
           THEN \* -ENOENT: goto cleanup
                LET L == cleanup_vma_slots(ld)
                IN  ld' = [L EXCEPT !.pc = IF L.list[r] = <<>> THEN "top" ELSE "rescan",
                                    !.last = "step"]
           ELSE IF ld.sem[MmOf(a)] # "free"
           THEN \* -EBUSY
                ld' = [ld EXCEPT !.pc = "busy", !.busy_mm = MmOf(a), !.from = a,
                                 !.last = "step"]
           ELSE ld' = [ld EXCEPT !.sem[MmOf(a)] = "ksm", !.pc = "locked",
                                 !.last = "step"]
    /\ UNCHANGED <<hs, kh, ks, rh, lb, vo>>

\* ksm_do_scan() with the mmap_sem of the slot held: ksm_test_exit(), or
\* the scan of one page; up_read().
LadderScan ==
    /\ ~ld.bug
    /\ ld.pc = "locked"
    /\ LET a == ld.cur[ld.rung]
           m == MmOf(a)
       IN  IF ld.exiting[m]
           THEN ld' = [ld EXCEPT !.sem[m] = "free", !.pc = "busy", !.busy_mm = m,
                                 !.from = a, !.last = "step"]
           ELSE \E kind \in Merges, b \in Areas \cup {NoArea}, adv \in BOOLEAN :
                   /\ MergeCan([ld EXCEPT !.scanned[a] = TRUE], a, kind, b)
                   /\ ld' = [ScanSlot(ld, a, kind, b, adv) EXCEPT !.sem[m] = "free", !.pc = "top",
                                                        !.last = "step"]
    /\ UNCHANGED <<hs, kh, ks, rh, lb, vo>>

\* The areas whose vma the walk at the busy label reads: the slots after the
\* busy one up to the first of another process, or the busy slot itself when
\* no slot follows it.
RECURSIVE Walk(_, _, _)
\* reads: the mm read from each slot's vma; the slot the walk ends on
Walk(l, i, reads) ==
    IF i > Len(l) THEN NoArea
    ELSE IF reads[l[i]] THEN l[i]
    ELSE Walk(l, i + 1, reads)

WalkRead(l, from, stop) ==
    IF ListPos(l, from) = Len(l) THEN {from}
    ELSE {l[i] : i \in (ListPos(l, from) + 1)..(IF stop = NoArea THEN Len(l) ELSE ListPos(l, stop))}

\* ksm_do_scan() at the busy label: skip the slots of the busy process.
\* other[x] says that the mm read through iter->vma for slot x differs from
\* busy_mm; for a slot whose vma is freed the read is of freed memory and
\* gives any value.  What the scanner does after such a read is not
\* followed further.
LadderBusy ==
    /\ ~ld.bug
    /\ ld.pc = "busy"
    /\ LET r == ld.rung
           l == ld.list[r]
           a == ld.from
       IN  \E other \in [Areas -> BOOLEAN] :
              /\ \A x \in Areas : ld.st[x] = "in" => other[x] = (MmOf(x) # ld.busy_mm)
              /\ LET stop == IF ListPos(l, a) = Len(l)
                             THEN IF other[a] THEN a ELSE NoArea
                             ELSE Walk(l, ListPos(l, a) + 1, other)
                     freed == {x \in WalkRead(l, a, stop) : ld.st[x] # "in"}
                 IN  /\ \A x \in Areas \ freed : ld.st[x] # "in" => ~other[x]
                     /\ ld' = [ld EXCEPT
                                 !.freed_read = freed,
                                 !.bug = freed # {},
                                 !.cur[r] = IF stop # NoArea THEN stop ELSE @,
                                 !.pc = IF stop # NoArea THEN "rescan" ELSE "top",
                                 !.from = NoArea,
                                 !.busy_mm = 0,
                                 !.last = "step"]
    /\ UNCHANGED <<hs, kh, ks, rh, lb, vo>>

\* ksm_do_scan() after the rungs: the round is finished when the lowest
\* rung with slots is; cleanup_vma_slots(); round_update_ladder().
LowestFinished(L) ==
    /\ OnLadder(L) # {}
    /\ L.fin[CHOOSE r \in Rungs : /\ L.list[r] # <<>>
                                  /\ \A q \in Rungs : q < r => L.list[q] = <<>>]

LadderPassEnd ==
    /\ ~ld.bug
    /\ ld.pc = "top"
    /\ LET L == [cleanup_vma_slots(ld) EXCEPT !.pc = "sleep", !.last = "step"]
       IN  IF LowestFinished(ld)
           THEN \E raw \in [Areas -> 0..MaxRatio] :
                   /\ \A a \in Areas : a \notin InTable(L) => raw[a] = 0
                   /\ ld' = RoundUpdateLadder(L, raw)
           ELSE ld' = L
    /\ UNCHANGED <<hs, kh, ks, rh, lb, vo>>

------------------------------------------------------------------------------
\* The host.  down_write(&mm->mmap_sem) and up_write()
HostLockMm ==
    /\ ~ld.bug
    /\ \E m \in Mms :
          /\ ld.sem[m] = "free"
          /\ ld' = [ld EXCEPT !.sem[m] = "host", !.last = "step"]
    /\ UNCHANGED <<hs, kh, ks, rh, lb, vo>>

HostUnlockMm ==
    /\ ~ld.bug
    /\ \E m \in Mms :
          /\ ld.sem[m] = "host"
          /\ ld' = [ld EXCEPT !.sem[m] = "free", !.last = "step"]
    /\ UNCHANGED <<hs, kh, ks, rh, lb, vo>>

\* the last user of the mm is gone: mm_users = 0
HostExitMm ==
    /\ ~ld.bug
    /\ \E m \in Mms :
          /\ ~ld.exiting[m]
          /\ ld.sem[m] # "host"
          /\ ld' = [ld EXCEPT !.exiting[m] = TRUE, !.last = "step"]
    /\ UNCHANGED <<hs, kh, ks, rh, lb, vo>>

\* ksm_remove_vma(), called by the host with the mm's mmap_sem held for
\* writing, or from the teardown of an exiting mm while the scanner does not
\* hold the mmap_sem; the host frees the vma when it returns.
ksm_remove_vma ==
    /\ ~ld.bug
    /\ \E a \in Areas :
          /\ ld.st[a] \in {"new", "in", "noadd"}
          /\ \/ ld.sem[MmOf(a)] = "host"
             \/ ld.exiting[MmOf(a)] /\ ld.sem[MmOf(a)] = "free"
          /\ ld' = [ld EXCEPT !.st[a] = IF ld.st[a] = "in" THEN "del" ELSE "gone",
                              !.bug = @ \/ (ld.st[a] = "noadd" /\ a \in OnLadder(ld)),
                              !.last = "step"]
    /\ UNCHANGED <<hs, kh, ks, rh, lb, vo>>

\* a write fault of the host breaks a merged page of the area: pages_cowed++
HostCowArea ==
    /\ ~ld.bug
    /\ \E a \in Areas :
          /\ ld.st[a] = "in"
          /\ ld.cowed[a] < ld.merged[a]
          /\ ld' = [ld EXCEPT !.cowed[a] = @ + 1, !.last = "step"]
    /\ UNCHANGED <<hs, kh, ks, rh, lb, vo>>

\* The ladder over rounds: the scanner and the write faults of the host.
NextLadder ==
    \/ LadderWake
    \/ LadderTurn
    \/ LadderLock
    \/ LadderScan
    \/ LadderPassEnd
    \/ HostCowArea

\* The rung cursor within a round against a host that locks, exits and
\* removes areas.
NextCursor ==
    \/ LadderWake
    \/ LadderTurn
    \/ LadderLock
    \/ LadderScan
    \/ LadderBusy
    \/ HostLockMm
    \/ HostUnlockMm
    \/ HostExitMm
    \/ ksm_remove_vma


\* one or two areas, the thrashing filter off
RoundInit == \E a \in 1..2 : ld = LadderStart(0, 1..a)

\* The round boundary against a host that locks its memory map and removes
\* areas.
NextRound ==
    \/ LadderWake
    \/ LadderTurn
    \/ LadderLock
    \/ LadderScan
    \/ LadderBusy
    \/ LadderPassEnd
    \/ HostLockMm
    \/ HostUnlockMm
    \/ ksm_remove_vma

------------------------------------------------------------------------------
(***************************************************************************)
(* Admission, moves and removal of areas of any size, with the pool        *)
(* allocations of ksm_vma_enter() failing or not.                          *)
(***************************************************************************)
\* The host holds the mmap_sem of the mm for writing when it adds and when
\* it removes an area.
AdmitInit == ld = [LadderStart(0, {}) EXCEPT !.sem = [m \in Mms |-> "host"]]

\* ksm_vma_add_new(): the host reports a new area; its slot goes to the new
\* list with the area's page count
AdmitAddNew ==
    /\ ~ld.bug
    /\ \E a \in Areas, n \in AreaSizes :
          /\ ld.st[a] = "gone"
          /\ a \notin OnLadder(ld)
          /\ ld' = [ld EXCEPT !.st[a] = "new", !.pages[a] = n, !.last = "step"]
    /\ UNCHANGED <<hs, kh, ks, rh, lb, vo>>

\* ksm_scan_thread(): the admission pass ksm_enter_all_slots(); for the
\* slots in nomem a pool allocation fails
AdmitWake ==
    /\ ~ld.bug
    /\ \E a \in Areas : ld.st[a] = "new"
    /\ \E nomem \in SUBSET {a \in Areas : ld.st[a] = "new"} :
          ld' = [ksm_enter_all_slots(ld, nomem) EXCEPT !.last = "admit"]
    /\ UNCHANGED <<hs, kh, ks, rh, lb, vo>>

\* A move of round_update_ladder(): one admitted area goes a rung up or a
\* rung down
AdmitMove ==
    /\ ~ld.bug
    /\ \E a \in Areas, up \in BOOLEAN :
          /\ ld.st[a] \in {"in", "del"}
          /\ ld' = [(IF up THEN vma_rung_up(ld, a) ELSE vma_rung_down(ld, a))
                       EXCEPT !.last = "step"]
    /\ UNCHANGED <<hs, kh, ks, rh, lb, vo>>

\* cleanup_vma_slots() at one of its calls in ksm_do_scan()
AdmitCleanup ==
    /\ ~ld.bug
    /\ \E a \in Areas : ld.st[a] = "del"
    /\ ld' = [cleanup_vma_slots(ld) EXCEPT !.last = "step"]
    /\ UNCHANGED <<hs, kh, ks, rh, lb, vo>>

NextAdmit ==
    \/ AdmitAddNew
    \/ AdmitWake
    \/ AdmitMove
    \/ AdmitCleanup
    \/ ksm_remove_vma

(***************************************************************************)
(* The hash-strength controller: judge_rshash_direction() and              *)
(* rshash_adjust(), run once at every round boundary on the counters       *)
(* rshash_pos and rshash_neg that the round's scanning has accumulated.    *)
(***************************************************************************)
\* Largest value a round puts into rshash_pos or rshash_neg, pages scanned
\* in one round and round boundaries in one run.
MaxCost == 3
MaxRoundPages == 2
MaxCtlRounds == 10
\* The controller only counts with strengths and never hashes a page, so
\* its range of strengths need not be as short as the hash model's page:
\* the largest strength of the controller is StrengthScale times
\* HASH_STRENGTH_MAX of the hash model, which leaves room for steps of 2
\* and 4 that are not clipped.
StrengthScale == 2

HASH_STRENGTH_DELTA_MAX == 5
\* HASH_STRENGTH_MAX as the controller sees it
StrengthMax == StrengthScale * HASH_STRENGTH_MAX

\* enum rshash_states and enum rshash_direct
RshashStates == {"NEW", "STILL", "TRYDOWN", "TRYUP", "PRE_STILL"}
Directs == {"GO_UP", "GO_DOWN", "OBSCURE", "STILL"}

\* rh.state .. rh.turn_benefit_up   the fields of rshash_state
\* rh.hash_strength, rh.hash_strength_delta, rh.rshash_pos, rh.rshash_neg,
\* rh.rshash_neg_cont_zero, rh.rshash_cont_obscure, rh.ksm_scan_round
\*                  the statics of the same names
\* rh.scanned       ksm_pages_scanned - ksm_pages_scanned_last
\* rh.pc            "scan": a round is being scanned; "boundary": the round
\*                  is finished and round_update_ladder is about to run
\* rh.was, rh.was_strength, rh.was_delta, rh.ratio, rh.benefit
\*                  the state, strength, delta, neg ratio and benefit that
\*                  the last round boundary started from
\* rh.judged        what judge_rshash_direction returned at that boundary
\*                  ("none": it was not called)
\* rh.rehash_from   the argument of stable_tree_delta_hash at that boundary
\*                  (0: it was not called)
\* rh.window        for each round of the current lookup window, whether
\*                  its benefit was below stable_benefit
\* rh.pos_bug       BUG_ON(tmp > rshash_pos) of page_hash has fired
\* rh.long_bits     the width of unsigned long in the build (0 where the
\*                  costs of a round are not computed by page_hash)
RshashStart(strength) ==
    [state |-> "NEW", pre_direct |-> "GO_UP", below_count |-> 0,
     lookup_window_index |-> 0, stable_benefit |-> 0, stable_point |-> 0,
     turn_point_down |-> 0, turn_point_up |-> 0, turn_benefit_down |-> 0,
     turn_benefit_up |-> 0, hash_strength |-> strength,
     hash_strength_delta |-> 0, rshash_pos |-> 0, rshash_neg |-> 0,
     rshash_neg_cont_zero |-> 0, rshash_cont_obscure |-> 0,
     ksm_scan_round |-> 0, scanned |-> 0, pc |-> "scan",
     was |-> "NEW", was_strength |-> strength, was_delta |-> 0, ratio |-> 0,
     benefit |-> 0, judged |-> "none", rehash_from |-> 0, window |-> <<>>,
     pos_bug |-> FALSE, long_bits |-> 0]

RshashIdle == rh = RshashStart(1)

\* hash_strength starts at HASH_STRENGTH_FULL >> 4, a point with room on
\* both sides; on the short range every strength strictly inside
\* [1, StrengthMax] stands for it.
RshashInit == \E s \in 2..(StrengthMax - 1) : rh = RshashStart(s)

inc_hash_strength(c, delta) ==
    [c EXCEPT !.hash_strength =
        IF @ + Pow2(delta) > StrengthMax THEN StrengthMax
        ELSE @ + Pow2(delta)]

\* (the same without the floor at 1)
dec_hash_strength_no_floor(c, delta) ==
    [c EXCEPT !.hash_strength = @ - Pow2(delta)]

dec_hash_strength(c, delta) ==
    [c EXCEPT !.hash_strength = IF @ <= Pow2(delta) + 1 THEN 1 ELSE @ - Pow2(delta)]

inc_hash_strength_delta(c) ==
    [c EXCEPT !.hash_strength_delta =
        IF @ + 1 > HASH_STRENGTH_DELTA_MAX THEN HASH_STRENGTH_DELTA_MAX ELSE @ + 1]

get_current_neg_ratio(c) ==
    IF c.rshash_pos = 0 \/ c.rshash_neg > c.rshash_pos THEN 100
    ELSE (100 * c.rshash_neg) \div c.rshash_pos

get_current_benefit(c) ==
    IF c.rshash_neg > c.rshash_pos THEN 0
    ELSE (c.rshash_pos - c.rshash_neg) \div c.scanned

\* What judge_rshash_direction hands back: the direction and the statics as
\* it leaves them.
Judged(c, dir) == [dir |-> dir, c |-> c]

\* out: rshash_cont_obscure = 0; return STILL;   The value the jumps to
\* `out` have put into ret is not what is returned.
\* (the same with ret returned)
JudgeOut_returns_ret(c, ret) == Judged([c EXCEPT !.rshash_cont_obscure = 0], ret)

JudgeOut(c, ret) == Judged([c EXCEPT !.rshash_cont_obscure = 0], "STILL")

\* 100 * |current_benefit - stable_benefit| / stable_benefit
BenefitDelta(c) ==
    (100 * (IF get_current_benefit(c) > c.stable_benefit
            THEN get_current_benefit(c) - c.stable_benefit
            ELSE c.stable_benefit - get_current_benefit(c))) \div c.stable_benefit

judge_rshash_direction(c) ==
    IF get_current_neg_ratio(c) = 0
    THEN Judged([c EXCEPT !.rshash_neg_cont_zero = @ + 1],
                IF c.rshash_neg_cont_zero + 1 > 2 THEN "GO_DOWN" ELSE "STILL")
    ELSE Bind([c EXCEPT !.rshash_neg_cont_zero = 0], LAMBDA d :
        IF get_current_neg_ratio(d) > 90 THEN JudgeOut(d, "GO_UP")
        ELSE IF d.ksm_scan_round % 1024 = 3 THEN JudgeOut(d, "OBSCURE")
        ELSE IF d.stable_benefit = 0 THEN JudgeOut(d, "OBSCURE")
        ELSE IF BenefitDelta(d) > 50
             THEN Judged([d EXCEPT !.rshash_cont_obscure = @ + 1],
                         IF d.rshash_cont_obscure + 1 > 2 THEN "OBSCURE" ELSE "STILL")
        ELSE JudgeOut(d, "STILL"))

\* The judgement of a boundary is remembered with the statics.
Judge(c) ==
    Bind(judge_rshash_direction(c), LAMBDA j : Judged([j.c EXCEPT !.judged = j.dir], j.dir))

\* case RSHASH_STILL
AdjustStill(c) ==
    Bind(Judge(c), LAMBDA j :
        IF j.dir = "GO_UP"
        THEN Bind([j.c EXCEPT !.hash_strength_delta =
                        IF j.c.pre_direct = "GO_DOWN" THEN 0 ELSE @], LAMBDA d :
                 [inc_hash_strength_delta(inc_hash_strength(d, d.hash_strength_delta))
                    EXCEPT !.stable_benefit = get_current_benefit(d),
                           !.pre_direct = "GO_UP"])
        ELSE IF j.dir = "GO_DOWN"
        THEN Bind([j.c EXCEPT !.hash_strength_delta =
                        IF j.c.pre_direct = "GO_UP" THEN 0 ELSE @], LAMBDA d :
                 [inc_hash_strength_delta(dec_hash_strength(d, d.hash_strength_delta))
                    EXCEPT !.stable_benefit = get_current_benefit(d),
                           !.pre_direct = "GO_DOWN"])
        ELSE IF j.dir = "OBSCURE"
        THEN Bind([j.c EXCEPT !.stable_point = j.c.hash_strength,
                              !.turn_point_down = j.c.hash_strength,
                              !.turn_point_up = j.c.hash_strength,
                              !.turn_benefit_down = get_current_benefit(j.c),
                              !.turn_benefit_up = get_current_benefit(j.c),
                              !.lookup_window_index = 0,
                              !.state = "TRYDOWN"], LAMBDA d :
                 inc_hash_strength_delta(dec_hash_strength(d, d.hash_strength_delta)))
        ELSE j.c)

\* if (lookup_window_index++ % 5 == 0) below_count = 0;   the index is a u8
LookupWindow(c) ==
    [c EXCEPT !.lookup_window_index = (@ + 1) % 256,
              !.below_count = IF c.lookup_window_index % 5 = 0 THEN 0 ELSE @,
              !.window = IF c.lookup_window_index % 5 = 0 THEN <<>> ELSE @]

\* the comparison of the round's benefit with stable_benefit and with the
\* best benefit seen so far in this direction
TryDownBenefit(c) ==
    IF get_current_benefit(c) < c.stable_benefit
    THEN [c EXCEPT !.below_count = @ + 1, !.window = Append(@, TRUE)]
    ELSE IF get_current_benefit(c) > c.turn_benefit_down
    THEN [c EXCEPT !.turn_point_down = c.hash_strength,
                   !.turn_benefit_down = get_current_benefit(c),
                   !.window = Append(@, FALSE)]
    ELSE [c EXCEPT !.window = Append(@, FALSE)]

TryUpBenefit(c) ==
    IF get_current_benefit(c) < c.stable_benefit
    THEN [c EXCEPT !.below_count = @ + 1, !.window = Append(@, TRUE)]
    ELSE IF get_current_benefit(c) > c.turn_benefit_up
    THEN [c EXCEPT !.turn_point_up = c.hash_strength,
                   !.turn_benefit_up = get_current_benefit(c),
                   !.window = Append(@, FALSE)]
    ELSE [c EXCEPT !.window = Append(@, FALSE)]

\* the turn from TRYDOWN to TRYUP
TurnUp(c) ==
    Bind([c EXCEPT !.hash_strength = c.stable_point, !.hash_strength_delta = 0],
         LAMBDA d :
             [inc_hash_strength_delta(inc_hash_strength(d, d.hash_strength_delta))
                EXCEPT !.lookup_window_index = 0, !.state = "TRYUP",
                       !.hash_strength_delta = 0])

\* the turn from TRYUP to PRE_STILL
Settle(c) ==
    [c EXCEPT !.hash_strength = IF c.turn_benefit_up > c.turn_benefit_down
                                THEN c.turn_point_up ELSE c.turn_point_down,
              !.state = "PRE_STILL"]

\* case RSHASH_TRYDOWN; the judge is called only when below_count < 3
AdjustTryDown(c) ==
    Bind(TryDownBenefit(LookupWindow(c)), LAMBDA d :
        IF d.below_count >= 3 THEN TurnUp(d)
        ELSE Bind(Judge(d), LAMBDA j :
                 IF j.dir = "GO_UP" THEN TurnUp(j.c)
                 ELSE inc_hash_strength_delta(
                          dec_hash_strength(j.c, j.c.hash_strength_delta))))

\* case RSHASH_TRYUP
AdjustTryUp(c) ==
    Bind(TryUpBenefit(LookupWindow(c)), LAMBDA d :
        IF d.below_count >= 3 THEN Settle(d)
        ELSE Bind(Judge(d), LAMBDA j :
                 IF j.dir = "GO_DOWN" THEN Settle(j.c)
                 ELSE inc_hash_strength_delta(
                          inc_hash_strength(j.c, j.c.hash_strength_delta))))

\* case RSHASH_NEW, case RSHASH_PRE_STILL
AdjustNew(c) ==
    [c EXCEPT !.stable_benefit = get_current_benefit(c), !.state = "STILL",
              !.hash_strength_delta = 0]

\* the switch over rshash_state.state
AdjustSwitch(c) ==
    CASE c.state = "STILL" -> AdjustStill(c)
      [] c.state = "TRYDOWN" -> AdjustTryDown(c)
      [] c.state = "TRYUP" -> AdjustTryUp(c)
      [] c.state \in {"NEW", "PRE_STILL"} -> AdjustNew(c)

\* (the same with the rehash only when the strength has gone up)
RshashAdjust_rehash_up_only(c) ==
    IF c.scanned = 0 THEN c
    ELSE Bind(AdjustSwitch(c), LAMBDA d :
             [d EXCEPT !.rshash_neg = 0, !.rshash_pos = 0,
                       !.rehash_from = IF c.hash_strength < d.hash_strength
                                       THEN c.hash_strength ELSE 0])

\* rshash_adjust() on the controller's own statics.  The stable tree that
\* stable_tree_delta_hash works on is the merge engine's; here the call is
\* recorded with its argument.
RshashAdjust(c) ==
    IF c.scanned = 0 THEN c
    ELSE Bind(AdjustSwitch(c), LAMBDA d :
             [d EXCEPT !.rshash_neg = 0, !.rshash_pos = 0,
                       !.rehash_from = IF c.hash_strength # d.hash_strength
                                       THEN c.hash_strength ELSE 0])

\* A round of scanning: pages are scanned and the hash costs accumulate; a
\* round in which no page was scanned leaves the counters alone.
RshashScan ==
    /\ rh.pc = "scan"
    /\ rh.ksm_scan_round < MaxCtlRounds
    /\ \E n \in 0..MaxRoundPages, pos \in 0..MaxCost, neg \in 0..MaxCost :
        /\ n = 0 => (pos = 0 /\ neg = 0)
        /\ rh' = [rh EXCEPT !.scanned = n, !.rshash_pos = @ + pos,
                            !.rshash_neg = @ + neg, !.pc = "boundary",
                            !.was = rh.state, !.was_strength = rh.hash_strength,
                            !.was_delta = rh.hash_strength_delta,
                            !.ratio = 0, !.benefit = 0,
                            !.judged = "none", !.rehash_from = 0]
    /\ UNCHANGED <<hs, kh, ks, ld, lb, vo>>

\* The round boundary of ksm_do_scan: round_update_ladder calls
\* rshash_adjust and sets ksm_pages_scanned_last, then ksm_scan_round++.
RshashRound ==
    /\ rh.pc = "boundary"
    /\ rh' = [RshashAdjust([rh EXCEPT !.ratio = get_current_neg_ratio(rh),
                                      !.benefit = IF rh.scanned = 0 THEN 0
                                                  ELSE get_current_benefit(rh)])
                EXCEPT !.scanned = 0, !.ksm_scan_round = @ + 1, !.pc = "scan"]
    /\ UNCHANGED <<hs, kh, ks, ld, lb, vo>>

NextRshash == RshashScan \/ RshashRound

(***************************************************************************)
(* The construction of the scan ladder at start-up: the loop of ksm_init() *)
(* that counts the rungs and the loop of init_scan_ladder() that gives     *)
(* every rung its scan ratio, for any ksm_min_scan_ratio and               *)
(* ksm_scan_ratio_delta.                                                   *)
(***************************************************************************)
\* The largest ksm_min_scan_ratio and ksm_scan_ratio_delta that the ladder
\* is built for.
MaxMinRatio == 130
MaxDelta == 6

\* lb.min_ratio, lb.delta   ksm_min_scan_ratio, ksm_scan_ratio_delta
\* lb.sr, lb.size           sr and ksm_scan_ladder_size in ksm_init()
\* lb.i, lb.mul             i and mul in init_scan_ladder()
\* lb.ratio                 scan_ratio of the rungs filled so far
\* lb.pc                    "count": in the loop of ksm_init(); "fill": in
\*                          the loop of init_scan_ladder(); "done"
BuildStart(m, d) ==
    [min_ratio |-> m, delta |-> d, sr |-> m, size |-> 1, i |-> 0, mul |-> 1,
     ratio |-> <<>>, pc |-> "count"]

BuildIdle == lb = BuildStart(ksm_min_scan_ratio, ksm_scan_ratio_delta)

BuildInit == \E m \in 1..MaxMinRatio, d \in 2..MaxDelta : lb = BuildStart(m, d)

\* (the rung count one short: the loop of ksm_init() with sr * delta tested)
KsmInitCount_one_short ==
    /\ lb.pc = "count"
    /\ lb' = IF lb.sr * lb.delta < KSM_SCAN_RATIO_MAX
             THEN [lb EXCEPT !.sr = lb.sr * lb.delta, !.size = @ + 1]
             ELSE [lb EXCEPT !.pc = "fill"]
    /\ UNCHANGED <<hs, kh, ks, ld, rh, vo>>

\* while (sr < KSM_SCAN_RATIO_MAX) { sr *= ksm_scan_ratio_delta;
\* ksm_scan_ladder_size++; }   sr is an unsigned int; the product of an
\* sr below KSM_SCAN_RATIO_MAX and a delta up to MaxDelta does not wrap
KsmInitCount ==
    /\ lb.pc = "count"
    /\ lb' = IF lb.sr < KSM_SCAN_RATIO_MAX
             THEN [lb EXCEPT !.sr = lb.sr * lb.delta, !.size = @ + 1]
             ELSE [lb EXCEPT !.pc = "fill"]
    /\ UNCHANGED <<hs, kh, ks, ld, rh, vo>>

\* for (i = 0; i < ksm_scan_ladder_size; i++, mul *= ksm_scan_ratio_delta)
\*         ksm_scan_ladder[i].scan_ratio = ksm_min_scan_ratio * mul;
InitScanLadder ==
    /\ lb.pc = "fill"
    /\ lb' = IF lb.i < lb.size
             THEN [lb EXCEPT !.ratio = Append(@, lb.min_ratio * lb.mul),
                             !.i = @ + 1, !.mul = @ * lb.delta]
             ELSE [lb EXCEPT !.pc = "done"]
    /\ UNCHANGED <<hs, kh, ks, ld, rh, vo>>

NextBuild == KsmInitCount \/ InitScanLadder

(***************************************************************************)
(* The per-area visit order: the rmap_list entries of one vma_slot, their  *)
(* pools, and get_next_rmap_item() with its lazy random permutation,       *)
(* try_free_last_pool() and sort_rmap_entry_list().                        *)
(***************************************************************************)
\* The largest area (in pages), the number of rmap_list entries that one
\* pool page holds (PAGE_SIZE / sizeof(struct rmap_list_entry) in the
\* source) and the number of passes over the area that are followed.
OrderPages == 4
PoolEntries == 2
MaxPasses == 3

\* vo.pages               slot->pages
\* vo.entry[i]            the rmap_list entry of index i: k = "new" (all
\*                        zero), "addr" (an address with IS_ADDR_FLAG) or
\*                        "item" (a pointer to an rmap_item); a is the page
\*                        of the area that the address or the item names,
\*                        ix the item's entry_index
\* vo.pool[p]             slot->rmap_list_pool[p] is allocated; the entries
\*                        of a pool that is not allocated read as "new",
\*                        as the pool is zeroed when it is allocated again
\* vo.pool_counts[p]      slot->pool_counts[p]
\* vo.pages_scanned, vo.need_sort, vo.need_rerand     the slot's fields
\* vo.bug                 a BUG_ON of the entry code has fired
\* vo.oom                 alloc_page failed in get_rmap_list_entry (BUG_ON)
\* vo.order               the pages selected in the current pass, in order
\* vo.prev                the pages selected in the pass before it, kept
\*                        for a pass that is not re-randomised
\* vo.sorted              sort_rmap_entry_list ran at the start of this pass
EntryNew == [k |-> "new", a |-> 0, ix |-> 0]

EntryAddr(a) == [k |-> "addr", a |-> a, ix |-> 0]

EntryItem(a, ix) == [k |-> "item", a |-> a, ix |-> ix]

vma_pool_size(n) == (n + PoolEntries - 1) \div PoolEntries

OrderStart(n) ==
    [pages |-> n,
     entry |-> [i \in 0..(n - 1) |-> EntryNew],
     pool |-> [p \in 0..(vma_pool_size(n) - 1) |-> FALSE],
     pool_counts |-> [p \in 0..(vma_pool_size(n) - 1) |-> 0],
     pages_scanned |-> 0, need_sort |-> FALSE, need_rerand |-> TRUE,
     bug |-> FALSE, oom |-> FALSE,
     order |-> <<>>, prev |-> <<>>, sorted |-> FALSE]

OrderIdle == vo = OrderStart(1)

OrderInit == \E n \in 1..OrderPages : vo = OrderStart(n)

get_pool_index(i) == i \div PoolEntries

within_same_pool(i, j) == get_pool_index(i) = get_pool_index(j)

\* the entries of pool p
PoolOf(v, p) == {i \in DOMAIN v.entry : get_pool_index(i) = p}

\* __free_page(slot->rmap_list_pool[p]); slot->rmap_list_pool[p] = NULL
FreePool(v, p) ==
    [v EXCEPT !.pool[p] = FALSE,
              !.entry = [i \in DOMAIN @ |-> IF get_pool_index(i) = p
                                            THEN EntryNew ELSE @[i]]]

\* get_rmap_list_entry(slot, index, 1): the pool of the index is allocated
\* (zeroed) if it is not there; mem is whether alloc_page succeeds
GetListEntry(v, i, mem) ==
    IF v.pool[get_pool_index(i)] THEN v
    ELSE IF mem THEN [v EXCEPT !.pool[get_pool_index(i)] = TRUE]
    ELSE [v EXCEPT !.oom = TRUE]

entry_is_new(e) == e.k = "new"

entry_has_rmap(e) == e.k = "item"

inc_rmap_list_pool_count(v, i) ==
    [v EXCEPT !.bug = @ \/ ~v.pool[get_pool_index(i)],
              !.pool_counts[get_pool_index(i)] = @ + 1]

dec_rmap_list_pool_count(v, i) ==
    [v EXCEPT !.bug = @ \/ ~v.pool[get_pool_index(i)]
                        \/ v.pool_counts[get_pool_index(i)] = 0,
              !.pool_counts[get_pool_index(i)] = IF @ = 0 THEN 0 ELSE @ - 1]

\* an entry in its place: an item's entry_index is set to the index
Placed(e, i) == IF entry_has_rmap(e) THEN [e EXCEPT !.ix = i] ELSE e

swap_entries(v, i1, i2) ==
    LET e1 == v.entry[i2]
        e2 == v.entry[i1]
        w  == [v EXCEPT !.bug = @ \/ (entry_is_new(e1) /\ entry_is_new(e2)),
                        !.entry[i1] = Placed(e1, i1),
                        !.entry[i2] = Placed(e2, i2)]
    IN  IF entry_has_rmap(e1) /\ ~entry_has_rmap(e2)
        THEN dec_rmap_list_pool_count(inc_rmap_list_pool_count(w, i1), i2)
        ELSE IF ~entry_has_rmap(e1) /\ entry_has_rmap(e2)
        THEN dec_rmap_list_pool_count(inc_rmap_list_pool_count(w, i2), i1)
        ELSE w

\* free_entry_item(entry) for the entry of index i
free_entry_item(v, i) ==
    IF v.entry[i].k = "addr" THEN v
    ELSE Bind(v.entry[i], LAMBDA e :
           dec_rmap_list_pool_count(
               [v EXCEPT !.bug = @ \/ e.k = "new",
                         !.entry[i] = EntryAddr(e.a)], e.ix))

pool_entry_boundary(i) == i # 0 /\ i % PoolEntries = 0

\* (try_free_last_pool that does not ask for a sort)
try_free_last_pool_no_sort(v, i) ==
    IF v.pool[get_pool_index(i)] /\ v.pool_counts[get_pool_index(i)] = 0
    THEN FreePool(v, get_pool_index(i))
    ELSE v

try_free_last_pool(v, i) ==
    IF v.pool[get_pool_index(i)] /\ v.pool_counts[get_pool_index(i)] = 0
    THEN [FreePool(v, get_pool_index(i)) EXCEPT !.need_sort = TRUE]
    ELSE v

\* the first loop of sort_rmap_entry_list(), from index i on
RECURSIVE SortEntries(_, _, _)
SortEntries(v, i, mem) ==
    IF i >= v.pages \/ v.oom THEN v
    ELSE IF ~v.pool[get_pool_index(i)]
    THEN SortEntries(v, i + PoolEntries, mem)
    ELSE IF entry_is_new(v.entry[i]) THEN SortEntries(v, i + 1, mem)
    ELSE IF v.entry[i].k = "addr"
    THEN SortEntries([v EXCEPT !.entry[i] = EntryNew], i + 1, mem)
    ELSE IF v.entry[i].a = i THEN SortEntries(v, i + 1, mem)
    ELSE Bind(GetListEntry(v, v.entry[i].a, mem), LAMBDA w :
           IF w.oom THEN w
           ELSE SortEntries(swap_entries(w, i, v.entry[i].a), i, mem))

\* the second loop of sort_rmap_entry_list(): the pools from p on that
\* hold no rmap_item are freed
RECURSIVE FreeEmptyPools(_, _)
FreeEmptyPools(v, p) ==
    IF p >= vma_pool_size(v.pages) THEN v
    ELSE IF v.pool[p] /\ \A i \in PoolOf(v, p) : ~entry_has_rmap(v.entry[i])
    THEN FreeEmptyPools(
             [FreePool(v, p) EXCEPT !.bug = @ \/ v.pool_counts[p] # 0], p + 1)
    ELSE FreeEmptyPools(v, p + 1)

sort_rmap_entry_list(v, mem) ==
    Bind(SortEntries(v, 0, mem), LAMBDA w :
        IF w.oom THEN w
        ELSE [FreeEmptyPools(w, 0) EXCEPT !.need_sort = FALSE])

vma_fully_scanned(v) == v.pages_scanned # 0 /\ v.pages_scanned % v.pages = 0

\* scan_index
ScanIndex(v) == v.pages_scanned % v.pages

\* if (pool_entry_boundary(scan_index)) try_free_last_pool(...);
\* if (vma_fully_scanned(slot)) { slot->need_rerand = slot->need_sort;
\* if (slot->need_sort) sort_rmap_entry_list(slot); }
PassStart(v, mem) ==
    Bind(IF pool_entry_boundary(ScanIndex(v))
         THEN try_free_last_pool(v, ScanIndex(v) - 1) ELSE v, LAMBDA w :
        IF ~vma_fully_scanned(w) THEN w
        ELSE IF w.need_sort
        THEN sort_rmap_entry_list([w EXCEPT !.need_rerand = TRUE], mem)
        ELSE [w EXCEPT !.need_rerand = FALSE])

\* an entry that is new gets the address of its own index
\* (get_index_orig_addr, set_is_addr)
InitEntry(v, i) ==
    IF entry_is_new(v.entry[i]) THEN [v EXCEPT !.entry[i] = EntryAddr(i)] ELSE v

\* scan_entry = get_rmap_list_entry(slot, scan_index, 1) and, if
\* need_rerand, the swap with the entry of swap_index = scan_index + r,
\* r = random32() % rand_range
PickEntry(v, r, mem) ==
    Bind(GetListEntry(v, ScanIndex(v), mem), LAMBDA w :
        IF w.oom THEN w
        ELSE Bind(InitEntry(w, ScanIndex(v)), LAMBDA x :
            IF ~x.need_rerand \/ r = 0 THEN x
            ELSE Bind(GetListEntry(x, ScanIndex(v) + r, mem), LAMBDA y :
                IF y.oom THEN y
                ELSE swap_entries(InitEntry(y, ScanIndex(v) + r),
                                  ScanIndex(v), ScanIndex(v) + r))))

\* get_entry_address(scan_entry): BUG() for an entry that is new, BUG_ON
\* an address outside the area
EntryBug(v, i) ==
    [v EXCEPT !.bug = @ \/ entry_is_new(v.entry[i])
                        \/ v.entry[i].a \notin 0..(v.pages - 1)]

\* what get_next_rmap_item() does with the page of the selected address:
\* "item": an anonymous page is there and the entry has or gets its
\* rmap_item; "none": no page, not an anonymous page, or no memory for a
\* new rmap_item, and the entry's item is freed
TakePage(v, i, got) ==
    IF got = "item"
    THEN IF entry_has_rmap(v.entry[i]) THEN v
         ELSE inc_rmap_list_pool_count(
                  [v EXCEPT !.entry[i] = EntryItem(v.entry[i].a, i)], i)
    ELSE free_entry_item(v, i)

\* get_next_rmap_item(slot): r is random32() % rand_range
GetNextEntry(v, r, got, mem) ==
    Bind(PickEntry(PassStart(v, mem), r, mem), LAMBDA w :
        IF w.oom THEN w
        ELSE TakePage(EntryBug(w, ScanIndex(v)), ScanIndex(v), got))

\* the bookkeeping of the pass: the page selected by the call is appended
\* to the order of the pass, which starts anew at scan_index 0; the
\* BUG_ON of a failed alloc_page stops the scanner where it was
Selected(v, w) ==
    IF w.oom THEN [v EXCEPT !.oom = TRUE]
    ELSE [w EXCEPT !.order = Append(IF ScanIndex(v) = 0 THEN <<>> ELSE v.order,
                                    w.entry[ScanIndex(v)].a),
                   !.prev = IF ScanIndex(v) # 0 THEN v.prev
                            ELSE IF w.need_rerand THEN <<>> ELSE v.order,
                   !.sorted = IF ScanIndex(v) = 0
                              THEN vma_fully_scanned(v) /\ v.need_sort
                              ELSE v.sorted,
                   !.pages_scanned = v.pages_scanned + 1]

\* scan_vma_one_page(): get_next_rmap_item() and slot->pages_scanned++
OrderScanOnePage ==
    /\ ~vo.bug /\ ~vo.oom
    /\ vo.pages_scanned < MaxPasses * vo.pages
    /\ \E r \in 0..(vo.pages - ScanIndex(vo) - 1), got \in {"item", "none"},
          mem \in BOOLEAN :
          vo' = Selected(vo, GetNextEntry(vo, r, got, mem))
    /\ UNCHANGED <<hs, kh, ks, ld, rh, lb>>

NextOrder == OrderScanOnePage

------------------------------------------------------------------------------
(***************************************************************************)
(* ksm_do_scan() with the budgets of the rungs: the loop over the rungs    *)
(* from repeat_all, the loop over rung->pages_to_scan with its cleanup,    *)
(* rescan and busy labels, the end of the pass and the jump back to        *)
(* repeat_all.                                                             *)
(***************************************************************************)
\* The largest rung->pages_to_scan that cal_ladder_pages_to_scan() leaves
\* and the calls of ksm_do_scan() that are followed.
MaxBudget == 2
MaxCalls == 2

\* ld.budget[r]     rung->pages_to_scan
\* ld.rest          rest_pages
\* ld.full[a]       slot->fully_scanned
\* ld.calls         the calls of ksm_do_scan() so far
\* ld.rung          i, the index of the loop over the rungs (-1: it is over)
\* ld.pc            "for": at the head of the loop over the rungs; "while":
\*                  at the test of rung->pages_to_scan; "rescan", "busy",
\*                  "locked": as in the ladder; "end": behind the loop over
\*                  the rungs; "sleep": ksm_do_scan() has returned
\* rung_fully_scanned(): fully_scanned_slots == vma_num && fully_scanned_slots
RungFullyScanned(L, r) ==
    /\ L.list[r] # <<>>
    /\ \A a \in InList(L.list[r]) : L.full[a]

\* cleanup_vma_slots(); the slots it frees take their flags with them
DrainDeleted(L) ==
    Bind(cleanup_vma_slots(L), LAMBDA L1 :
        [L1 EXCEPT !.full = [a \in Areas |-> L1.st[a] # "gone" /\ L.full[a]]])

\* break: out of the loop over rung->pages_to_scan, on to the next rung
BreakWhile(L) == [L EXCEPT !.pc = "for", !.rung = @ - 1]

\* two areas of two processes, the thrashing filter off
ScanInit == ld = LadderStart(0, {1, NumAreas})

\* the outcomes of cmp_and_merge_page() that are followed here
ScanMerges == {"none", "new"}

\* ksm_scan_thread(): ksm_enter_all_slots() and the call of ksm_do_scan();
\* n is what cal_ladder_pages_to_scan() has left in a rung
DoScanCall ==
    /\ ~ld.bug
    /\ ld.pc = "sleep"
    /\ ld.calls < MaxCalls
    /\ \E n \in 1..MaxBudget :
          ld' = [ksm_enter_all_slots(ld, {}) EXCEPT
                    !.budget = [r \in Rungs |-> n], !.rest = 0, !.calls = @ + 1,
                    !.rung = ksm_scan_ladder_size - 1,
                    !.pc = "for", !.last = "call"]
    /\ UNCHANGED <<hs, kh, ks, rh, lb, vo>>

\* one turn of the loop over the rungs, up to the loop over pages_to_scan
DoScanFor ==
    /\ ~ld.bug
    /\ ld.pc = "for"
    /\ LET r == ld.rung
       IN  ld' = IF r < 0
                 THEN [ld EXCEPT !.pc = "end", !.last = "step"]
                 ELSE IF ld.budget[r] = 0
                 THEN [ld EXCEPT !.rung = r - 1, !.last = "step"]
                 ELSE IF ld.list[r] = <<>>
                 THEN [ld EXCEPT !.budget[r] = 0, !.rung = r - 1, !.last = "step"]
                 ELSE IF RungFullyScanned(ld, r)
                 THEN [ld EXCEPT !.rest = @ + ld.budget[r], !.budget[r] = 0,
                                 !.rung = r - 1, !.last = "step"]
                 ELSE [ld EXCEPT !.budget[r] = @ + ld.rest, !.rest = 0,
                                 !.pc = "while", !.last = "step"]
    /\ UNCHANGED <<hs, kh, ks, rh, lb, vo>>

\* while (rung->pages_to_scan) { rung->pages_to_scan--; cleanup: ... }
DoScanWhile ==
    /\ ~ld.bug
    /\ ld.pc = "while"
    /\ LET r == ld.rung
           L == DrainDeleted([ld EXCEPT !.budget[r] = @ - 1, !.last = "step"])
       IN  ld' = IF ld.budget[r] = 0 THEN BreakWhile([ld EXCEPT !.last = "step"])
                 ELSE IF L.list[r] = <<>> THEN BreakWhile(L)
                 ELSE [L EXCEPT !.pc = "rescan"]
    /\ UNCHANGED <<hs, kh, ks, rh, lb, vo>>

\* rescan: try_down_read_slot_mmap_sem() on the slot under the cursor
DoScanLock ==
    /\ ~ld.bug
    /\ ld.pc = "rescan"
    /\ LET r == ld.rung
           a == ld.cur[r]
       IN  IF a = NoArea
           THEN ld' = [ld EXCEPT !.bug = TRUE, !.last = "step"]
           ELSE IF ld.st[a] = "del"
           THEN \* -ENOENT: goto cleanup
                LET L == DrainDeleted([ld EXCEPT !.last = "step"])
                IN  ld' = IF L.list[r] = <<>> THEN BreakWhile(L) ELSE L
           ELSE IF ld.sem[MmOf(a)] # "free"
           THEN ld' = [ld EXCEPT !.pc = "busy", !.busy_mm = MmOf(a), !.from = a,
                                 !.last = "step"]
           ELSE ld' = [ld EXCEPT !.sem[MmOf(a)] = "ksm", !.pc = "locked",
                                 !.last = "step"]
    /\ UNCHANGED <<hs, kh, ks, rh, lb, vo>>

\* busy: the walk over the slots of the busy process; goto rescan at the
\* first slot of another process, break when there is none.  The read of
\* iter->vma->vm_mm through the vma of a removed slot is a read of freed
\* memory: it gives any value (other) or faults.
DoScanBusy ==
    /\ ~ld.bug
    /\ ld.pc = "busy"
    /\ LET r == ld.rung
           l == ld.list[r]
           a == ld.from
       IN  \E other \in [Areas -> BOOLEAN], fault \in BOOLEAN :
              /\ \A x \in Areas : ld.st[x] = "in" => other[x] = (MmOf(x) # ld.busy_mm)
              /\ LET stop == IF ListPos(l, a) = Len(l)
                             THEN IF other[a] THEN a ELSE NoArea
                             ELSE Walk(l, ListPos(l, a) + 1, other)
                     freed == {x \in WalkRead(l, a, stop) : ld.st[x] # "in"}
                     L == [ld EXCEPT !.freed_read = freed,
                                     !.bug = fault,
                                     !.from = NoArea,
                                     !.busy_mm = 0,
                                     !.last = "step"]
                 IN  /\ \A x \in Areas \ freed : ld.st[x] # "in" => ~other[x]
                     /\ fault => freed # {}
                     /\ ld' = IF stop # NoArea
                              THEN [L EXCEPT !.cur[r] = stop, !.pc = "rescan"]
                              ELSE BreakWhile(L)
    /\ UNCHANGED <<hs, kh, ks, rh, lb, vo>>

\* the move of the cursor behind a slot that has used up its pages_to_scan
\* or is fully scanned: lines 3688-3714
MoveCursor(L, a) ==
    LET r == L.rung
        nxt == ListNext(L.list[r], a)
    IN  IF nxt # NoArea THEN [L EXCEPT !.cur[r] = nxt, !.pc = "while"]
        ELSE Bind([L EXCEPT !.fin[r] = TRUE, !.cur[r] = ListFirst(L.list[r])],
                  LAMBDA L1 :
                 IF RungFullyScanned(L1, r)
                 THEN BreakWhile([L1 EXCEPT !.rest = @ + L.budget[r],
                                            !.budget[r] = 0])
                 ELSE [L1 EXCEPT !.pc = "while"])

\* The slot with its mmap_sem held: ksm_test_exit(), or scan_vma_one_page()
\* for a slot that is not fully scanned, up_read() and the move of the
\* cursor.  adv: the slot has used up its pages_to_scan; nowfull: the page
\* was the last of the slot.
DoScanPage ==
    /\ ~ld.bug
    /\ ld.pc = "locked"
    /\ LET a == ld.cur[ld.rung]
           m == MmOf(a)
       IN  IF ld.exiting[m]
           THEN ld' = [ld EXCEPT !.sem[m] = "free", !.pc = "busy", !.busy_mm = m,
                                 !.from = a, !.last = "step"]
           ELSE IF ld.full[a]
           THEN ld' = MoveCursor([ld EXCEPT !.sem[m] = "free", !.last = "step"], a)
           ELSE \E kind \in ScanMerges, b \in Areas \cup {NoArea}, adv, nowfull \in BOOLEAN :
                   /\ MergeCan([ld EXCEPT !.scanned[a] = TRUE], a, kind, b)
                   /\ LET L == [MergeCount([ld EXCEPT !.scanned[a] = TRUE], a, kind, b)
                                   EXCEPT !.full[a] = nowfull, !.sem[m] = "free",
                                          !.last = "step"]
                      IN  ld' = IF adv \/ nowfull THEN MoveCursor(L, a)
                                ELSE [L EXCEPT !.pc = "while"]
    /\ UNCHANGED <<hs, kh, ks, rh, lb, vo>>

\* if (!list_empty(&rung->vma_list) && rung->pages_to_scan) goto repeat_all
BudgetLeft(L) == \E r \in Rungs : L.list[r] # <<>> /\ L.budget[r] # 0

\* Behind the loop over the rungs: round_finished from the rungs as they
\* are, cleanup_vma_slots(), round_update_ladder(), and repeat_all or the
\* return.
DoScanEnd ==
    /\ ~ld.bug
    /\ ld.pc = "end"
    /\ \E raw \in [Areas -> 0..MaxRatio] :
          LET L0 == DrainDeleted(ld)
              L1 == IF LowestFinished(ld)
                    THEN [RoundUpdateLadder(L0, raw) EXCEPT
                             !.full = [a \in Areas |-> FALSE]]
                    ELSE [L0 EXCEPT !.last = "step"]
          IN  /\ \A a \in Areas : (a \notin InTable(L0) \/ ~LowestFinished(ld)) => raw[a] = 0
              /\ ld' = IF L1.bug THEN L1
                       ELSE IF BudgetLeft(L1)
                       THEN [L1 EXCEPT !.pc = "for", !.rung = ksm_scan_ladder_size - 1]
                       ELSE [L1 EXCEPT !.pc = "sleep"]
    /\ UNCHANGED <<hs, kh, ks, rh, lb, vo>>

\* the scanner thread
ScannerNext ==
    \/ DoScanCall
    \/ DoScanFor
    \/ DoScanWhile
    \/ DoScanLock
    \/ DoScanBusy
    \/ DoScanPage
    \/ DoScanEnd

\* ksm_do_scan() against a host that locks its memory maps, exits and
\* removes areas
NextScan ==
    \/ ScannerNext
    \/ HostLockMm
    \/ HostUnlockMm
    \/ HostExitMm
    \/ ksm_remove_vma

(***************************************************************************)
(* Allocation.  A cache hands out the smallest free id; an empty cache is  *)
(* a failed allocation.                                                    *)
(***************************************************************************)
Smallest(S) == CHOOSE x \in S : \A y \in S : x <= y
FreeUTree(s) == UTreeIds \ s.ulist
FreeSTree(s) == STreeIds \ (s.slist[0] \cup s.slist[1])
FreeSNode(s) == {n \in NodeIds : ~s.snode[n].live}

\* free_stable_node(): list_del from stable_node_list and free
free_stable_node(s, n) ==
    [s EXCEPT !.snode[n] = StableNode0,
              !.snlist = SelectSeq(@, LAMBDA x : x # n)]

NodeItems(sn) == UNION {sn.hlist[i].items : i \in DOMAIN sn.hlist}

\* The areas whose anon_vma loses its last external reference when the
\* items its drop theirs: hold_anon_vma() took one reference per item with
\* STABLE_FLAG, and drop_anon_vma() takes the anon_vma lock when the count
\* reaches zero.
LastHolders(s, its) ==
    {sl \in Slots : /\ its \cap PagesOf(sl) # {}
                    /\ {vp \in PagesOf(sl) : s.item[vp].stable} \subseteq its}

\* The two halves of remove_node_from_stable_tree(): the rmap items leave
\* the node, the node leaves its tree node.
NodeDropItems(s, n) ==
    LET its == NodeItems(s.snode[n])
    IN  IF s.snode[n].hlist # <<>>
        THEN [s EXCEPT
                !.pruned = TRUE,
                !.anon_locked = @ \/ (s.plock # {} /\ LastHolders(s, its) # {}),
                !.pages_sharing = @ - Cardinality(its) + 1,
                !.pages_shared = @ - 1,
                !.item = [vp \in VPages |->
                            IF vp \in its
                            THEN [s.item[vp] EXCEPT !.stable = FALSE, !.unstable = FALSE]
                            ELSE s.item[vp]]]
        ELSE s

NodeUnlink(s, n, remove_tree_node) ==
    LET t == s.snode[n].tree_node
        rest == s.stn[t].members \ {n}
    IN  IF rest = {} /\ remove_tree_node
        THEN [s EXCEPT !.sroot[s.rootp] = @ \ {t},
                       !.slist = [x \in 0..1 |-> s.slist[x] \ {t}],
                       !.stn[t] = TreeNode0]
        ELSE [s EXCEPT !.stn[t].members = rest, !.stn[t].count = @ - 1]

\* remove_node_from_stable_tree()
remove_node_from_stable_tree(s, n, unlink_rb, remove_tree_node) ==
    Bind(NodeDropItems(s, n), LAMBDA s1 :
        free_stable_node(IF s1.snode[n].tree_node # NoNode /\ unlink_rb
                         THEN NodeUnlink(s1, n, remove_tree_node)
                         ELSE s1,
                         n))

\* page->mapping == expected_mapping, with the page still allocated
page_has_key(s, f, n) == s.pkind[f] = "ksm" /\ s.pnode[f] = n

\* get_ksm_page(): the page with a reference, or NoFrame after the stale
\* node was removed.
get_ksm_page(s, n, unlink_rb, remove_tree_node) ==
    LET f == s.snode[n].kpfn
    IN  IF page_has_key(s, f, n)
        THEN [st |-> get_page(s, f), page |-> f]
        ELSE [st |-> remove_node_from_stable_tree(s, n, unlink_rb, remove_tree_node),
              page |-> NoFrame]

\* A change of the NodeVma or rmap lists of stable node n: unlocked_list
\* records whether the page of the node was live and its page lock not held.
ListChange(s, n) ==
    [s EXCEPT !.unlocked_list =
        @ \/ (page_has_key(s, s.snode[n].kpfn, n) /\ s.snode[n].kpfn \notin s.plock)]

\* hlist_del(&rmap_item->hlist) and, when the NodeVma empties, its removal
HlistDel(hl, vp) ==
    LET cut == [i \in DOMAIN hl |-> [hl[i] EXCEPT !.items = @ \ {vp}]]
    IN  SelectSeq(cut, LAMBDA nv : nv.items # {})

\* rb_erase of an rmap_item from its unstable tree node.  The erase of an
\* item that is not linked under the tree node it points to writes to a
\* tree node that was freed (and perhaps allocated again): uaf.
UnstableErase(s, vp) ==
    LET t == s.item[vp].tree_node
        rest == s.utn[t].members \ {vp}
    IN  IF vp \notin s.utn[t].members
        THEN [s EXCEPT !.uaf = TRUE]
        ELSE IF rest = {}
        THEN [s EXCEPT !.uroot = @ \ {t}, !.ulist = @ \ {t}, !.utn[t] = TreeNode0]
        ELSE [s EXCEPT !.utn[t].members = rest, !.utn[t].count = @ - 1]

\* A removal that takes the node out of the stable tree when its NodeVma
\* list empties.
RemoveFromNode_unlink_empty(s, vp, n, page) ==
    Bind(HlistDel(s.snode[n].hlist, vp), LAMBDA hl :
        Bind(put_page([ListChange([s EXCEPT !.plock = @ \cup {page}], n) EXCEPT
                          !.snode[n].hlist = hl, !.plock = s.plock],
                      page),
             LAMBDA s1 :
            Bind([s1 EXCEPT !.pages_shared = IF hl = <<>> THEN @ - 1 ELSE @,
                            !.pages_sharing = IF hl = <<>> THEN @ ELSE @ - 1,
                            !.item[vp].stable = FALSE,
                            !.item[vp].unstable = FALSE,
                            !.item[vp].hash_max = Zero32],
                 LAMBDA s2 :
                IF hl = <<>>
                THEN remove_node_from_stable_tree(s2, n, TRUE, TRUE)
                ELSE s2)))

\* The stable branch of remove_rmap_item_from_tree() once get_ksm_page()
\* returned the page.
RemoveFromNode(s, vp, n, page) ==
    Bind(HlistDel(s.snode[n].hlist, vp), LAMBDA hl :
        Bind(put_page([ListChange([s EXCEPT !.plock = @ \cup {page}], n) EXCEPT
                          !.snode[n].hlist = hl, !.plock = s.plock],
                      page),
             LAMBDA s1 :
            [s1 EXCEPT !.pages_shared = IF hl = <<>> THEN @ - 1 ELSE @,
                       !.pages_sharing = IF hl = <<>> THEN @ ELSE @ - 1,
                       !.item[vp].stable = FALSE,
                       !.item[vp].unstable = FALSE,
                       !.item[vp].hash_max = Zero32]))

\* (an erase that does not ask for the round of the item)
inserted_any_round(s, vp) == TRUE

\* rmap_item->append_round == ksm_scan_round
inserted_this_round(s, vp) == s.item[vp].append_round = s.scan_round

\* remove_rmap_item_from_tree()
remove_rmap_item_from_tree(s, vp) ==
    IF s.item[vp].stable
    THEN Bind(get_ksm_page(s, s.item[vp].head, TRUE, TRUE), LAMBDA r :
            IF r.page = NoFrame
            THEN r.st
            ELSE RemoveFromNode(r.st, vp, s.item[vp].head, r.page))
    ELSE IF s.item[vp].unstable
    THEN Bind(IF inserted_this_round(s, vp) THEN UnstableErase(s, vp) ELSE s,
              LAMBDA s1 :
                [s1 EXCEPT !.pages_unshared = @ - 1,
                           !.item[vp].stable = FALSE,
                           !.item[vp].unstable = FALSE,
                           !.item[vp].hash_max = Zero32])
    ELSE [s EXCEPT !.item[vp].hash_max = Zero32]

\* the relative cost of a memcmp of two pages, measured at start-up
memcmp_cost == 7

\* rshash_neg += cost
ChargeNeg(s, cost) == [s EXCEPT !.neg = @ + cost]

\* page_hash_max(): the hash at HASH_STRENGTH_MAX, never zero
page_hash_max(s, f, hash_old) ==
    Bind(delta_hash(RandomNums, ContentWords(s.content[f]), s.hash_strength,
                    HASH_STRENGTH_MAX, hash_old),
         LAMBDA h : IF h = Zero32 THEN One32 ELSE h)

\* rmap_item_hash_max(): the state with item->hash_max filled in
rmap_item_hash_max(s, vp, hash) ==
    IF s.item[vp].hash_max = Zero32
    THEN [s EXCEPT !.item[vp].hash_max = page_hash_max(s, s.item[vp].page, hash),
                   !.neg = @ + (HASH_STRENGTH_MAX - s.hash_strength)]
    ELSE s

\* stable_node_hash_max()
stable_node_hash_max(s, n, f, hash) ==
    IF s.snode[n].hash_max = Zero32
    THEN [s EXCEPT !.snode[n].hash_max = page_hash_max(s, f, hash),
                   !.neg = @ + (HASH_STRENGTH_MAX - s.hash_strength)]
    ELSE s

\* write_protect_page(): err, the pte before (old_pte) and after (orig_pte).
\* pinned: another holder of the page (O_DIRECT) raised page_count.
write_protect_page(s, vp, f, pinned) ==
    IF s.pte[vp].f # f
    THEN [st |-> s, err |-> TRUE, orig |-> Pte0, old |-> Pte0]
    ELSE IF s.pte[vp].w
    THEN IF pinned \/ s.ref[f] # 1
         THEN \* out_unlock after ptep_clear_flush: the pte stays cleared
              [st |-> [s EXCEPT !.pte[vp] = Pte0, !.lost = @ \cup {f}],
               err |-> TRUE, orig |-> Pte0, old |-> s.pte[vp]]
         ELSE [st |-> [s EXCEPT !.pte[vp].w = FALSE], err |-> FALSE,
               orig |-> [f |-> f, w |-> FALSE], old |-> s.pte[vp]]
    ELSE [st |-> s, err |-> FALSE, orig |-> s.pte[vp], old |-> s.pte[vp]]

\* replace_page(): TRUE in err is MERGE_ERR_PGERR
replace_page(s, vp, f, kpage, orig_pte) ==
    IF ~pte_same(s.pte[vp], orig_pte)
    THEN [st |-> s, err |-> TRUE]
    ELSE [st |-> Reap(Repoint(s, vp, kpage)), err |-> FALSE]

\* check_collision(): "COLLI" or "CHANGED"
check_collision(s, vp, hash) ==
    LET f == s.item[vp].page
    IN  IF s.item[vp].hash_max # Zero32
        THEN IF s.item[vp].hash_max = page_hash_max(s, f, hash) THEN "COLLI" ELSE "CHANGED"
        ELSE IF page_hash(s, f) = hash THEN "COLLI" ELSE "CHANGED"

\* what check_collision() adds to rshash_neg
collision_cost(s, vp) ==
    IF s.item[vp].hash_max # Zero32
    THEN memcmp_cost + 2 * (HASH_STRENGTH_MAX - s.hash_strength)
    ELSE memcmp_cost + s.hash_strength

\* restore_ksm_page_pte()
restore_ksm_page_pte(s, vp, orig_pte, wprt_pte) ==
    IF ~pte_same(s.pte[vp], wprt_pte)
    THEN [st |-> s, err |-> TRUE]
    ELSE [st |-> [s EXCEPT !.pte[vp] = orig_pte], err |-> FALSE]

\* break_cow(): a write fault on the address when it maps a KSM page; the
\* fault fails (VM_FAULT_OOM) when the host has no frame left.
break_cow(s, vp) ==
    LET f == s.pte[vp].f
    IN  IF f = NoFrame \/ ~PageKsm(s, f) \/ FreeFrames(s) = {}
        THEN s
        ELSE Bind(NextFrame(s), LAMBDA g :
                Reap([s EXCEPT !.pte[vp] = [f |-> g, w |-> TRUE],
                               !.pkind[g] = "anon",
                               !.owner[g] = vp,
                               !.content[g] = s.content[f]]))

(***************************************************************************)
(* The two-level trees.  A tree is the set of its tree nodes, found by the *)
(* first-level hash; a tree node holds the set of its children, found by   *)
(* hash_max.                                                               *)
(***************************************************************************)
TreeFind(tn, root, hash) == {t \in root : tn[t].hash = hash}

\* The stable node of tree node t stable_tree_search() stops at: the only
\* child when count is 1, else the child of the same hash_max; NoNode when
\* the search runs off the tree.
StableMatch(s, vp, t) ==
    LET ms == {n \in s.stn[t].members : s.snode[n].hash_max = s.item[vp].hash_max}
    IN  IF s.stn[t].count = 1
        THEN CHOOSE n \in s.stn[t].members : TRUE
        ELSE IF ms # {} THEN CHOOSE n \in ms : TRUE ELSE NoNode

\* stable_tree_search() below an existing tree node t
StableSubSearch(s, vp, t) ==
    Bind(StableMatch(s, vp, t), LAMBDA n :
        IF n = NoNode
        THEN [st |-> s, page |-> NoFrame]
        ELSE get_ksm_page(s, n, TRUE, TRUE))

\* stable_tree_search(): the page found, with a reference, or NoFrame
stable_tree_search(s, vp, hash) ==
    LET f == s.item[vp].page
        ts == TreeFind(s.stn, s.sroot[s.rootp], hash)
        t == CHOOSE x \in ts : TRUE
    IN  IF page_stable_node(s, f) # NoNode
        THEN [st |-> get_page(s, f), page |-> f]
        ELSE IF ts = {}
        THEN [st |-> s, page |-> NoFrame]
        ELSE IF s.stn[t].members = {}
        THEN \* BUG_ON(!stable_node), BUG_ON(!node)
             [st |-> [s EXCEPT !.bug = TRUE], page |-> NoFrame]
        ELSE StableSubSearch(IF s.stn[t].count = 1
                             THEN s
                             ELSE rmap_item_hash_max(s, vp, hash),
                             vp, t)

\* get_mergeable_page_lock_mmap(): "ok" with the page gotten, "EBUSY", "EINVAL"
get_mergeable_page_lock_mmap(s, vp, busy) ==
    LET f == s.item[vp].page
    IN  IF busy
        THEN [st |-> s, err |-> "EBUSY"]
        ELSE IF s.pkind[f] = "free"
        THEN [st |-> s, err |-> "EINVAL"]
        ELSE IF s.pkind[f] # "anon" \/ s.owner[f] # vp
        THEN [st |-> s, err |-> "EINVAL"]
        ELSE [st |-> get_page(down_read(s, SlotOf(vp)), f), err |-> "ok"]

\* get_tree_rmap_item_page()
get_tree_rmap_item_page(s, vp, busy) ==
    Bind(get_mergeable_page_lock_mmap(s, vp, busy), LAMBDA r :
        IF r.err = "EINVAL"
        THEN [st |-> remove_rmap_item_from_tree(r.st, vp), err |-> r.err]
        ELSE r)

\* An insert that links the item and leaves UNSTABLE_FLAG unset.
UnstableLink_unflagged(s, vp, t) ==
    [s EXCEPT !.item[vp].tree_node = t,
              !.item[vp].append_round = s.scan_round,
              !.utn[t].members = @ \cup {vp},
              !.pages_unshared = @ + 1]

\* The tail of unstable_tree_search_insert(): link the item under tree node t.
\* The tree node's count is left as it is.
UnstableLink(s, vp, t) ==
    [s EXCEPT !.item[vp].tree_node = t,
              !.item[vp].unstable = TRUE,
              !.item[vp].append_round = s.scan_round,
              !.utn[t].members = @ \cup {vp},
              !.pages_unshared = @ + 1]

\* get_page_out of unstable_tree_search_insert()
UnstableGetPageOut(s, vp, m, busy) ==
    IF s.item[m].page = s.item[vp].page
    THEN [st |-> s, tree |-> NoItem]
    ELSE Bind(get_tree_rmap_item_page(s, m, busy), LAMBDA r :
            [st |-> r.st, tree |-> IF r.err = "ok" THEN m ELSE NoItem])

\* The item of tree node t unstable_tree_search_insert() stops at: the only
\* child when count is 1, else the child of the same hash_max; NoItem when
\* the search runs off the tree.
UnstableMatch(s, vp, t) ==
    LET ms == {m \in s.utn[t].members : s.item[m].hash_max = s.item[vp].hash_max}
    IN  IF s.utn[t].count = 1
        THEN CHOOSE m \in s.utn[t].members : TRUE
        ELSE IF ms # {} THEN CHOOSE m \in ms : TRUE ELSE NoItem

\* unstable_tree_search_insert() below an existing tree node t
UnstableSubSearch(s, vp, t, busy) ==
    Bind(UnstableMatch(s, vp, t), LAMBDA m :
        IF m = NoItem
        THEN [st |-> UnstableLink(s, vp, t), tree |-> NoItem]
        ELSE UnstableGetPageOut(s, vp, m, busy))

\* alloc_tree_node(&unstable_tree_node_list) and the link into the root
UnstableNewTreeNode(s, t, hash) ==
    [s EXCEPT !.utn[t] = [TreeNode0 EXCEPT !.hash = hash],
              !.ulist = @ \cup {t},
              !.uroot = @ \cup {t}]

\* unstable_tree_search_insert(): the tree item found, its page gotten, or
\* NoItem.  nomem: alloc_tree_node fails.
unstable_tree_search_insert(s, vp, hash, busy, nomem) ==
    LET ts == TreeFind(s.utn, s.uroot, hash)
        t == CHOOSE x \in ts : TRUE
    IN  IF ts # {}
        THEN IF s.utn[t].members = {}
             THEN [st |-> [s EXCEPT !.bug = TRUE], tree |-> NoItem]
             ELSE UnstableSubSearch(IF s.utn[t].count = 1
                                    THEN s
                                    ELSE rmap_item_hash_max(s, vp, hash),
                                    vp, t, busy)
        ELSE IF nomem \/ FreeUTree(s) = {}
        THEN [st |-> s, tree |-> NoItem]
        ELSE [st |-> UnstableLink(UnstableNewTreeNode(s, Smallest(FreeUTree(s)), hash),
                                  vp, Smallest(FreeUTree(s))),
              tree |-> NoItem]

(***************************************************************************)
(* The inter-area table.                                                   *)
(***************************************************************************)
\* the number of entries of ksm_vma_table (ksm_vma_table_size)
vma_table_size(s) == Cardinality(DOMAIN s.vma_table)

\* enter_inter_vma_table()
enter_inter_vma_table(s, sl) ==
    LET free == {i \in DOMAIN s.vma_table : s.vma_table[i] = 0}
    IN  IF free = {}
        THEN [s EXCEPT !.bug = TRUE]
        ELSE LET i == Smallest(free)
                 e == IF i = s.index_end THEN s.index_end + 1 ELSE s.index_end
             IN  [s EXCEPT !.slot[sl].ksm_index = i,
                           !.vma_table[i] = sl,
                           !.table_num = @ + 1,
                           !.index_end = e,
                           !.bug = @ \/ i > s.index_end \/ e > vma_table_size(s) - 1]

\* inc_vma_intertab_pair(); a BUG_ON of enter_inter_vma_table() stops it
\* before the counter is touched
inc_vma_intertab_pair(s, sl1, sl2) ==
    Bind(IF s.slot[sl1].ksm_index = -1 THEN enter_inter_vma_table(s, sl1) ELSE s,
         LAMBDA sa :
    Bind(IF sa.slot[sl2].ksm_index = -1 THEN enter_inter_vma_table(sa, sl2) ELSE sa,
         LAMBDA sb :
            IF sb.slot[sl1].ksm_index = -1 \/ sb.slot[sl2].ksm_index = -1
               \/ (sb.bug /\ ~s.bug)
            THEN sb
            ELSE [sb EXCEPT !.intertab[intertab_vma_offset(sb.slot[sl1].ksm_index,
                                                           sb.slot[sl2].ksm_index)] = @ + 1,
                            !.paired = TRUE]))

\* ksm_inter_vma_table[intertab_vma_offset(slot1->ksm_index,
\* slot2->ksm_index)] of two areas that are in the table
PairCountOf(s, sl1, sl2) ==
    s.intertab[intertab_vma_offset(s.slot[sl1].ksm_index, s.slot[sl2].ksm_index)]

\* dec_vma_intertab_pair()
dec_vma_intertab_pair(s, sl1, sl2) ==
    IF s.slot[sl1].ksm_index = -1 \/ s.slot[sl2].ksm_index = -1
    THEN [s EXCEPT !.bug = TRUE]
    ELSE LET o == intertab_vma_offset(s.slot[sl1].ksm_index, s.slot[sl2].ksm_index)
         IN  IF s.intertab[o] = 0
             THEN [s EXCEPT !.bug = TRUE]
             ELSE [s EXCEPT !.intertab[o] = @ - 1]

\* The loops of stable_tree_append() over the NodeVmas hl[from..to] that were
\* updated in this round.
RECURSIVE IncUpdated(_, _, _, _, _)
IncUpdated(s, sl, hl, from, to) ==
    IF from > to
    THEN s
    ELSE IncUpdated(IF hl[from].last_update = s.scan_round
                    THEN inc_vma_intertab_pair(s, sl, hl[from].slot)
                    ELSE s,
                    sl, hl, from + 1, to)

\* (an inner duplicate whose updates are not cancelled)
DecUpdated_none(s, sl, hl, from, to) == s

RECURSIVE DecUpdated(_, _, _, _, _)
DecUpdated(s, sl, hl, from, to) ==
    IF from > to
    THEN s
    ELSE DecUpdated(IF hl[from].last_update = s.scan_round
                    THEN dec_vma_intertab_pair(s, sl, hl[from].slot)
                    ELSE s,
                    sl, hl, from + 1, to)

InsertAt(seq, i, x) == SubSeq(seq, 1, i - 1) \o <<x>> \o SubSeq(seq, i, Len(seq))

\* (a first loop that stops only at the NodeVma of the same area)
AppendStop_same_key(hl, sl) ==
    LET eq == {i \in DOMAIN hl : hl[i].slot = sl}
    IN  IF eq = {} THEN 0 ELSE Smallest(eq)

\* The NodeVma of hl the first loop of stable_tree_append() stops at; 0 when
\* it runs to the end of the list.
AppendStop(hl, sl) ==
    LET ge == {i \in DOMAIN hl : hl[i].slot >= sl}
    IN  IF ge = {} THEN 0 ELSE Smallest(ge)

\* BUG_ON(!new_node_vma) after alloc_node_vma() failed
NodeVmaBug(s) == [s EXCEPT !.bug = TRUE, !.alloc_bug = TRUE]

\* stable_tree_append() on a node that has NodeVmas: s is the state after
\* the first loop, at the NodeVma it stopped at.
AppendPlace(s, vp, n, hl, at, nomem) ==
    LET sl == SlotOf(vp)
        nv == [slot |-> sl, last_update |-> s.scan_round, items |-> {vp}]
    IN  IF nomem /\ (at = 0 \/ hl[at].slot # sl)
        THEN NodeVmaBug(s)
        ELSE IF at = 0
        THEN [s EXCEPT !.snode[n].hlist = Append(hl, nv)]
        ELSE IF hl[at].slot # sl
        THEN [IncUpdated(s, sl, hl, at + 1, Len(hl)) EXCEPT
                 !.snode[n].hlist = InsertAt(hl, at, nv)]
        ELSE [(IF hl[at].last_update = s.scan_round
               THEN DecUpdated(s, sl, hl, 1, at - 1)
               ELSE IncUpdated(s, sl, hl, at + 1, Len(hl))) EXCEPT
                 !.snode[n].hlist[at].items = @ \cup {vp},
                 !.snode[n].hlist[at].last_update = s.scan_round]

\* An append that counts every item as a sharing one.
AppendMark_all_sharing(s, vp, n) ==
    [s EXCEPT !.item[vp].stable = TRUE,
              !.item[vp].append_round = s.scan_round,
              !.item[vp].head = n,
              !.slot[SlotOf(vp)].pages_merged = @ + 1,
              !.pages_sharing = @ + 1]

\* the flags and counters stable_tree_append() sets before it walks the list
AppendMark(s, vp, n) ==
    [s EXCEPT !.item[vp].stable = TRUE,
              !.item[vp].append_round = s.scan_round,
              !.item[vp].head = n,
              !.slot[SlotOf(vp)].pages_merged = @ + 1,
              !.pages_shared = IF s.snode[n].hlist = <<>> THEN @ + 1 ELSE @,
              !.pages_sharing = IF s.snode[n].hlist = <<>> THEN @ ELSE @ + 1]

\* stable_tree_append().  The NodeVma key is the address of the slot; the
\* slots lie in memory in the order of their numbers.
stable_tree_append(s, vp, n, nomem) ==
    IF n = NoNode
    THEN [s EXCEPT !.bug = TRUE]
    ELSE LET hl == s.snode[n].hlist
             at == AppendStop(hl, SlotOf(vp))
         IN  IF hl = <<>>
             THEN IF nomem
                  THEN NodeVmaBug(AppendMark(s, vp, n))
                  ELSE [ListChange(AppendMark(s, vp, n), n) EXCEPT
                           !.snode[n].hlist = <<[slot |-> SlotOf(vp),
                                                 last_update |-> s.scan_round,
                                                 items |-> {vp}]>>]
             ELSE AppendPlace(IncUpdated(ListChange(AppendMark(s, vp, n), n),
                                         SlotOf(vp), hl, 1,
                                         IF at = 0 THEN Len(hl) ELSE at),
                              vp, n, hl, at, nomem)

(***************************************************************************)
(* Insertion into the stable tree.                                         *)
(***************************************************************************)
\* try_merge_with_stable(): the state and success1, success2
try_merge_with_stable(s, vp1, vp2, oldpage, tree_page) ==
    IF oldpage = tree_page
    THEN [st |-> s, s1 |-> TRUE, s2 |-> TRUE]
    ELSE IF ~PageKsm(s, oldpage)
    THEN [st |-> s, s1 |-> FALSE, s2 |-> FALSE]
    ELSE IF s.pte[vp1].f # oldpage \/ s.pte[vp1].w
    THEN [st |-> s, s1 |-> FALSE, s2 |-> FALSE]
    ELSE Bind(Repoint(s, vp1, tree_page), LAMBDA sa :
            IF sa.pte[vp2].f # oldpage \/ sa.pte[vp2].w
            THEN [st |-> sa, s1 |-> TRUE, s2 |-> FALSE]
            ELSE [st |-> Repoint(sa, vp2, tree_page), s1 |-> TRUE, s2 |-> TRUE])

\* new_stable_node(): NoNode when alloc_stable_node fails
new_stable_node(s, t, kpage, hash_max, nomem) ==
    IF nomem \/ FreeSNode(s) = {}
    THEN [st |-> s, node |-> NoNode]
    ELSE Bind(Smallest(FreeSNode(s)), LAMBDA n :
            [st |-> set_page_stable_node(
                        [s EXCEPT !.snode[n] = [live |-> TRUE, kpfn |-> kpage,
                                                hash_max |-> hash_max,
                                                tree_node |-> t, hlist |-> <<>>],
                                  !.snlist = <<n>> \o @],
                        kpage, n),
             node |-> n])

\* An insert that counts the node and does not link it.
StableLink_count_only(s, t, n) == [s EXCEPT !.stn[t].count = @ + 1]

\* rb_link_node of a stable node under its tree node, tree_node->count++
StableLink(s, t, n) ==
    [s EXCEPT !.stn[t].members = @ \cup {n}, !.stn[t].count = @ + 1]

InsertFailed(s) == [st |-> s, node |-> NoNode, s1 |-> FALSE, s2 |-> FALSE]

\* new_stable_node and the linking that follows it in the three inserters
InsertNew(s, t, kpage, hash_max, nomem) ==
    Bind(new_stable_node(s, t, kpage, hash_max, nomem), LAMBDA r :
        IF r.node = NoNode
        THEN InsertFailed(r.st)
        ELSE [st |-> StableLink(r.st, t, r.node), node |-> r.node,
              s1 |-> TRUE, s2 |-> TRUE])

\* the branch of the inserters that found an identical page in the tree
InsertMerge(s, n, vp, tvp, kpage, tree_page) ==
    Bind(try_merge_with_stable(s, vp, tvp, kpage, tree_page), LAMBDA m :
        IF ~m.s1 /\ ~m.s2
        THEN InsertFailed(put_page(m.st, tree_page))
        ELSE [st |-> put_page(m.st, tree_page), node |-> n,
              s1 |-> m.s1, s2 |-> m.s2])

\* first_level_insert() once the page of the only child differs: the
\* page's words are read for hash_max as they are when the reference is
\* dropped.
FirstLevelSecond(s, t, sn, vp, kpage, nomem) ==
    IF s.item[vp].hash_max = s.snode[sn].hash_max
    THEN InsertFailed(s)
    ELSE InsertNew(s, t, kpage, s.item[vp].hash_max, nomem)

\* first_level_insert() after get_ksm_page() on the only child sn
FirstLevelGot(r, t, sn, vp, tvp, kpage, hash, nomem) ==
    IF r.page = NoFrame
    THEN InsertNew(r.st, t, kpage, Zero32, nomem)
    ELSE IF pages_identical(r.st, kpage, r.page)
    THEN InsertMerge(ChargeNeg(r.st, memcmp_cost), sn, vp, tvp, kpage, r.page)
    ELSE FirstLevelSecond(
             rmap_item_hash_max(
                 put_page(stable_node_hash_max(ChargeNeg(r.st, memcmp_cost), sn,
                                               r.page, r.st.stn[t].hash),
                          r.page),
                 vp, hash),
             t, sn, vp, kpage, nomem)

\* first_level_insert()
first_level_insert(s, t, vp, tvp, kpage, hash, nomem) ==
    IF s.stn[t].members = {}
    THEN InsertFailed([s EXCEPT !.bug = TRUE])
    ELSE Bind(CHOOSE n \in s.stn[t].members : TRUE, LAMBDA sn :
            FirstLevelGot(get_ksm_page(s, sn, TRUE, FALSE),
                          t, sn, vp, tvp, kpage, hash, nomem))

\* the child of tree node t with the hash_max of the item of vp, or NoNode
SubtreeMatch(s, t, vp) ==
    LET ms == {n \in s.stn[t].members : s.snode[n].hash_max = s.item[vp].hash_max}
    IN  IF ms = {} THEN NoNode ELSE CHOOSE n \in ms : TRUE

\* stable_subtree_insert()
RECURSIVE stable_subtree_insert(_, _, _, _, _, _, _)
\* stable_subtree_insert() after get_ksm_page() on the child sn it stops at
SubtreeGot(r, t, sn, vp, tvp, kpage, hash, nomem) ==
    IF r.page # NoFrame
    THEN IF pages_identical(r.st, kpage, r.page)
         THEN InsertMerge(ChargeNeg(r.st, memcmp_cost), sn, vp, tvp, kpage, r.page)
         ELSE InsertFailed(put_page(ChargeNeg(r.st, memcmp_cost), r.page))
    ELSE IF r.st.stn[t].count = 0 /\ r.st.stn[t].members = {}
    THEN InsertNew(r.st, t, kpage, r.st.item[vp].hash_max, nomem)
    ELSE stable_subtree_insert(r.st, t, vp, tvp, kpage, hash, nomem)

\* stable_subtree_insert() with the item's hash_max known
SubtreeWalk(sa, t, vp, tvp, kpage, hash, nomem) ==
    Bind(SubtreeMatch(sa, t, vp), LAMBDA sn :
        IF sn = NoNode
        THEN InsertNew(sa, t, kpage, sa.item[vp].hash_max, nomem)
        ELSE SubtreeGot(get_ksm_page(sa, sn, TRUE, FALSE),
                        t, sn, vp, tvp, kpage, hash, nomem))

stable_subtree_insert(s, t, vp, tvp, kpage, hash, nomem) ==
    IF s.stn[t].members = {}
    THEN InsertFailed([s EXCEPT !.bug = TRUE])
    ELSE SubtreeWalk(rmap_item_hash_max(s, vp, hash), t, vp, tvp, kpage, hash, nomem)

\* stable_tree_insert() when no tree node of the hash exists
InsertTreeNode(s, kpage, hash, t, no_stable_node) ==
    Bind(new_stable_node(s, t, kpage, Zero32, no_stable_node), LAMBDA r :
        IF r.node = NoNode
        THEN InsertFailed(r.st)
        ELSE [st |-> StableLink([r.st EXCEPT
                                    !.stn[t] = [TreeNode0 EXCEPT !.hash = hash],
                                    !.slist[s.rootp] = @ \cup {t},
                                    !.sroot[s.rootp] = @ \cup {t}],
                                t, r.node),
              node |-> r.node, s1 |-> TRUE, s2 |-> TRUE])

\* stable_tree_insert(): the stable node, success1 and success2
stable_tree_insert(s, kpage, hash, vp, tvp, no_tree_node, no_stable_node) ==
    LET ts == TreeFind(s.stn, s.sroot[s.rootp], hash)
        t == CHOOSE x \in ts : TRUE
    IN  IF ts # {}
        THEN IF s.stn[t].count = 1
             THEN first_level_insert(s, t, vp, tvp, kpage, hash, no_stable_node)
             ELSE stable_subtree_insert(s, t, vp, tvp, kpage, hash, no_stable_node)
        ELSE IF no_tree_node \/ FreeSTree(s) = {}
        THEN InsertFailed(s)
        ELSE InsertTreeNode(s, kpage, hash, Smallest(FreeSTree(s)), no_stable_node)

(***************************************************************************)
(* The scan of one page.  The scanner's steps are the stretches of         *)
(* scan_vma_one_page() and cmp_and_merge_page() between which the host may *)
(* run: ks.pc names the place the scanner stands at, ks.loc its locals.    *)
(***************************************************************************)
\* the failures of the environment a step can meet
Charge(s, fault) ==
    IF fault = "none" THEN s ELSE [s EXCEPT !.events = @ + 1, !.coll = NoItem]
FaultOk(s, fault) == fault = "none" \/ s.events < MaxEvents

\* ksm_scan_thread(): the scanner works with ksm_thread_mutex held, which
\* the memory notifier keeps from MEM_GOING_OFFLINE on; a BUG() stops it.
ScannerRuns == ~ks.bug /\ ~ks.offlining

\* rung_fully_scanned()
rung_fully_scanned(s) == \A sl \in Slots : s.slot[sl].fully_scanned

\* The end of the loop body of ksm_do_scan(): move current_scan on when the
\* slot used its quota or is fully scanned.
Advance(s, sl) ==
    IF s.slot[sl].qcount = 0 \/ s.slot[sl].fully_scanned
    THEN IF sl = NumSlots
         THEN [s EXCEPT !.round_finished = TRUE, !.cursor = 1]
         ELSE [s EXCEPT !.cursor = sl + 1]
    ELSE s

\* The bookkeeping of ksm_do_scan() after scan_vma_one_page(): the page is
\* counted in the slot's pass and against its quota.
EndMark(s, vp) ==
    LET sl == SlotOf(vp)
        vis == s.slot[sl].visited \cup {vp}
    IN  [s EXCEPT !.slot[sl].visited = vis,
                  !.slot[sl].qcount = (@ + 1) % SlotQuota,
                  !.slot[sl].slot_scanned = TRUE,
                  !.slot[sl].fully_scanned = @ \/ vis = PagesOf(sl)]

\* out2, out1 of scan_vma_one_page() and the return to ksm_do_scan(),
\* which releases the mmap_sem of the scanned area
EndScan(s, vp, gotten) ==
    [Advance(EndMark(up_read(IF gotten THEN put_page(s, s.item[vp].page) ELSE s,
                             SlotOf(vp)),
                     vp),
             SlotOf(vp))
        EXCEPT !.pc = "idle", !.loc = Loc0]

\* (a put_up_out that keeps the mmap_sem of the tree item's area)
EndScanTree_locked(s, vp, tvp) == EndScan(put_page(s, s.item[tvp].page), vp, TRUE)

\* put_up_out of cmp_and_merge_page(), then the end of the scan
EndScanTree(s, vp, tvp) ==
    EndScan(up_read(put_page(s, s.item[tvp].page), SlotOf(tvp)), vp, TRUE)

\* get_next_rmap_item(): the state and whether an item is returned
get_next_rmap_item(s, vp, nomem) ==
    IF s.pte[vp].f = NoFrame
    THEN \* nopage: free_entry_item()
         [st |-> IF s.item[vp].exists
                 THEN [remove_rmap_item_from_tree(s, vp) EXCEPT !.item[vp] = Item0]
                 ELSE s,
          item |-> FALSE]
    ELSE IF ~s.item[vp].exists /\ nomem
    THEN [st |-> s, item |-> FALSE]
    ELSE [st |-> get_page([s EXCEPT !.item[vp].exists = TRUE,
                                    !.item[vp].page = s.pte[vp].f],
                          s.pte[vp].f),
          item |-> TRUE]

\* cmp_and_merge_page() from the unstable tree search on
UnstablePart(s, vp, hash, busy, nomem) ==
    Bind(unstable_tree_search_insert(s, vp, hash, busy, nomem), LAMBDA r :
        IF r.tree = NoItem
        THEN EndScan(r.st, vp, TRUE)
        ELSE [r.st EXCEPT !.pc = "two",
                          !.loc = [Loc0 EXCEPT !.vp = vp, !.tree = r.tree,
                                               !.hash = hash]])

\* cmp_and_merge_page() from the stable tree search on
ScanSearch(s, vp, hash, fault) ==
    Bind(stable_tree_search(s, vp, hash), LAMBDA r :
        IF r.page # NoFrame
        THEN [r.st EXCEPT !.pc = "stable",
                          !.loc = [Loc0 EXCEPT !.vp = vp, !.kpage = r.page,
                                               !.hash = hash]]
        ELSE UnstablePart(r.st, vp, hash, fault = "mmap_busy",
                          fault = "no_tree_node"))

\* cmp_and_merge_page() up to the stable tree search
ScanHash(s, vp, fault) ==
    ScanSearch([s EXCEPT !.pages_scanned = @ + 1, !.last = "scan"],
               vp, page_hash(s, s.item[vp].page), fault)

\* A scanner that takes no item for one that is in the stable tree.
in_stable_tree_never(s, vp) == FALSE
\* in_stable_tree()
in_stable_tree(s, vp) == s.item[vp].stable

\* scan_vma_one_page() after get_next_rmap_item()
ScanGot(s, item, vp, fault) ==
    IF ~item
    THEN [EndScan(s, vp, FALSE) EXCEPT !.last = "nopage"]
    ELSE IF PageKsm(s, s.item[vp].page) /\ in_stable_tree(s, vp)
    THEN [EndScan(s, vp, TRUE) EXCEPT !.last = "skip"]
    ELSE ScanHash(remove_rmap_item_from_tree(s, vp), vp, fault)

\* get_rmap_list_entry(slot, scan_index, 1): the pool page of the entry is
\* allocated when it is missing, BUG_ON(!slot->rmap_list_pool[pool_index])
get_rmap_list_entry(s, sl, nomem) ==
    IF s.slot[sl].pool
    THEN s
    ELSE IF nomem
    THEN [s EXCEPT !.bug = TRUE, !.alloc_bug = TRUE]
    ELSE [s EXCEPT !.slot[sl].pool = TRUE]

\* scan_vma_one_page() up to the stable tree search of cmp_and_merge_page()
ScanPage(s, vp, fault) ==
    Bind(get_rmap_list_entry(s, SlotOf(vp), fault = "no_pool_page"), LAMBDA e :
        IF e.bug
        THEN [e EXCEPT !.last = "scan"]
        ELSE Bind(get_next_rmap_item(e, vp, fault = "no_rmap_item"), LAMBDA g :
                ScanGot(g.st, g.item, vp, fault)))

\* The pages of the slot not yet scanned in this pass over it.
Unvisited(s, sl) ==
    IF s.slot[sl].visited = PagesOf(sl) THEN PagesOf(sl) ELSE PagesOf(sl) \ s.slot[sl].visited

\* The page get_next_rmap_item() takes when random32() draws 0: swap_index
\* is scan_index, the pages come in the order of their addresses.
NextPage(s, sl) == Smallest(Unvisited(s, sl))

StartPass(s, sl) ==
    IF s.slot[sl].visited = PagesOf(sl) THEN [s EXCEPT !.slot[sl].visited = {}] ELSE s

\* The scan of vp meets a true collision in the unstable tree: no stable
\* tree node has the hash of its page, an unstable tree node has it, and the
\* pages of all the items of that node differ from the page of vp.
TrueCollision(s, vp) ==
    /\ s.pte[vp].f # NoFrame
    /\ TreeFind(s.stn, s.sroot[s.rootp], page_hash(s, s.pte[vp].f)) = {}
    /\ \E t \in TreeFind(s.utn, s.uroot, page_hash(s, s.pte[vp].f)) :
          /\ s.utn[t].members \ {vp} # {}
          /\ \A m \in s.utn[t].members \ {vp} :
                /\ s.pte[m].f = s.item[m].page
                /\ s.content[s.item[m].page] # s.content[s.pte[vp].f]

ScanFaults == {"none", "no_pool_page", "no_rmap_item", "no_tree_node", "mmap_busy"}

\* One turn of the while loop of ksm_do_scan(): a slot that is fully scanned
\* is passed over, of any other the next page of its permutation is taken.
ScanStart ==
    /\ ks.pc = "idle"
    /\ ScannerRuns
    /\ ~rung_fully_scanned(ks)
    /\ ks.rounds < MaxRounds
    /\ IF ks.slot[ks.cursor].fully_scanned
       THEN ks' = [Advance(ks, ks.cursor) EXCEPT !.last = "pass"]
       ELSE \E fault \in ScanFaults :
               /\ FaultOk(ks, fault)
               /\ fault = "no_pool_page" => ~ks.slot[ks.cursor].pool
               /\ ks' = ScanPage([Charge(StartPass(down_read(ks, ks.cursor), ks.cursor),
                                         fault) EXCEPT
                                     !.neg = 0,
                                     !.repointed = FALSE,
                                     !.coll = IF /\ fault = "none"
                                                 /\ TrueCollision(ks, NextPage(ks, ks.cursor))
                                              THEN NextPage(ks, ks.cursor)
                                              ELSE NoItem],
                                 NextPage(ks, ks.cursor), fault)
    /\ UNCHANGED <<hs, kh, ld, rh, lb, vo>>

\* unlock_page(): the scanner holds no page lock any more
Unlock(s) == [s EXCEPT !.plock = {}]

\* success of try_to_merge_with_ksm_page(): stable_tree_append under the
\* page lock of kpage
KsmSuccess(s, vp, kpage, nomem) ==
    Bind(stable_tree_append([s EXCEPT !.plock = {kpage}], vp,
                            page_stable_node(s, kpage), nomem), LAMBDA a :
        IF a.alloc_bug
        THEN a
        ELSE EndScan(put_page(Unlock(a), kpage), vp, TRUE))

\* failure of try_to_merge_with_ksm_page(): s is the state after the
\* reference on kpage is dropped
KsmFailed(s, vp, hash, err, fault) ==
    IF err = "COLLI" /\ s.item[vp].hash_max # Zero32
    THEN EndScan(s, vp, TRUE)
    ELSE UnstablePart(s, vp, hash, fault = "mmap_busy", fault = "no_tree_node")

KsmFail(s, err, fault) ==
    KsmFailed(put_page(s, s.loc.kpage), s.loc.vp, s.loc.hash, err, fault)

KsmProtectFaults == {"none", "trylock", "pin", "no_tree_node", "no_node_vma", "mmap_busy"}

\* try_to_merge_with_ksm_page() up to write_protect_page(), when the page
\* is not kpage itself
KsmProtectPage(s, vp, page, kpage, fault) ==
    Bind(IF ~PageAnon(s, page) \/ ~PageKsm(s, kpage) \/ fault = "trylock"
         THEN [st |-> s, err |-> TRUE, orig |-> Pte0, old |-> Pte0]
         ELSE write_protect_page(s, vp, page, fault = "pin"),
         LAMBDA w :
            IF w.err
            THEN KsmFail(w.st, "PGERR", fault)
            ELSE [w.st EXCEPT !.pc = "ksm_wp", !.loc.orig_pte = w.orig,
                              !.plock = {page}])

KsmProtectStep(s, fault) ==
    IF s.item[s.loc.vp].page = s.loc.kpage
    THEN KsmSuccess(s, s.loc.vp, s.loc.kpage, fault = "no_node_vma")
    ELSE KsmProtectPage(s, s.loc.vp, s.item[s.loc.vp].page, s.loc.kpage, fault)

\* try_to_merge_with_ksm_page() up to write_protect_page()
KsmProtect ==
    /\ ks.pc = "stable"
    /\ ScannerRuns
    /\ \E fault \in KsmProtectFaults :
          /\ FaultOk(ks, fault)
          /\ ks' = KsmProtectStep([Charge(ks, fault) EXCEPT !.last = "ksm_protect"],
                                  fault)
    /\ UNCHANGED <<hs, kh, ld, rh, lb, vo>>

KsmMergeFaults == {"none", "no_tree_node", "no_node_vma", "mmap_busy"}

\* try_to_merge_with_ksm_page() from pages_identical() on
KsmMergePage(s, vp, page, kpage, fault) ==
    Bind(IF pages_identical(s, page, kpage)
         THEN replace_page(s, vp, page, kpage, s.loc.orig_pte)
         ELSE [st |-> ChargeNeg(s, collision_cost(s, vp)), err |-> TRUE],
         LAMBDA r :
            IF r.err
            THEN KsmFail(Unlock(r.st),
                         IF pages_identical(s, page, kpage)
                         THEN "PGERR"
                         ELSE check_collision(s, vp, s.loc.hash),
                         fault)
            ELSE KsmSuccess(Unlock(r.st), vp, kpage, fault = "no_node_vma"))

\* try_to_merge_with_ksm_page() from pages_identical() on, under the page
\* lock of the scanned page
KsmMerge ==
    /\ ks.pc = "ksm_wp"
    /\ ScannerRuns
    /\ \E fault \in KsmMergeFaults :
          /\ FaultOk(ks, fault)
          /\ ks' = KsmMergePage([Charge(ks, fault) EXCEPT !.last = "ksm_merge"],
                                ks.loc.vp, ks.item[ks.loc.vp].page, ks.loc.kpage,
                                fault)
    /\ UNCHANGED <<hs, kh, ld, rh, lb, vo>>

TwoFaults == {"none", "trylock", "pin"}

\* try_to_merge_two_pages() up to the unlock of the scanned page: the page
\* is write-protected and marked PageKsm with a NULL stable node.
TwoProtectPage(s, vp, tvp, page, tree_page, fault) ==
    Bind(IF \/ page = tree_page
            \/ ~PageAnon(s, page)
            \/ ~PageAnon(s, tree_page)
            \/ fault = "trylock"
         THEN [st |-> s, err |-> TRUE, orig |-> Pte0, old |-> Pte0]
         ELSE write_protect_page(s, vp, page, fault = "pin"),
         LAMBDA w :
            IF w.err
            THEN EndScanTree(w.st, vp, tvp)
            ELSE [set_page_stable_node(w.st, page, NoNode) EXCEPT
                     !.pc = "two_wp",
                     !.loc.wprt_pte1 = w.orig,
                     !.loc.orig_pte1 = w.old,
                     !.loc.saved_kind = s.pkind[page],
                     !.loc.saved_node = s.pnode[page]])

TwoProtect ==
    /\ ks.pc = "two"
    /\ ScannerRuns
    /\ \E fault \in TwoFaults :
          /\ FaultOk(ks, fault)
          /\ ks' = TwoProtectPage([Charge(ks, fault) EXCEPT !.last = "two_protect"],
                                  ks.loc.vp, ks.loc.tree, ks.item[ks.loc.vp].page,
                                  ks.item[ks.loc.tree].page, fault)
    /\ UNCHANGED <<hs, kh, ld, rh, lb, vo>>

\* (a restore_out that restores the pte and leaves page->mapping)
RestoreOut_pte_only(s) ==
    restore_ksm_page_pte(s, s.loc.vp, s.loc.orig_pte1, s.loc.wprt_pte1).st

\* restore_out of try_to_merge_two_pages()
RestoreOut(s) ==
    Bind(restore_ksm_page_pte(s, s.loc.vp, s.loc.orig_pte1, s.loc.wprt_pte1),
         LAMBDA r :
            IF r.err
            THEN r.st
            ELSE [r.st EXCEPT !.pkind[s.item[s.loc.vp].page] = s.loc.saved_kind,
                              !.pnode[s.item[s.loc.vp].page] = s.loc.saved_node])

\* the linking of the scanned item as a sibling of the tree item
SiblingLink(s, vp, tvp, t) ==
    IF s.item[vp].hash_max = s.item[tvp].hash_max
    THEN s
    ELSE [s EXCEPT !.item[vp].tree_node = t,
                   !.item[vp].unstable = TRUE,
                   !.item[vp].append_round = s.scan_round,
                   !.utn[t].members = @ \cup {vp}]

\* The MERGE_ERR_COLLI branch of cmp_and_merge_page(): the scanned item
\* becomes a sibling of the tree item.
CollisionSibling(s) ==
    SiblingLink(
        rmap_item_hash_max(
            IF s.utn[s.item[s.loc.tree].tree_node].count = 1
            THEN rmap_item_hash_max(s, s.loc.tree,
                                    s.utn[s.item[s.loc.tree].tree_node].hash)
            ELSE [s EXCEPT !.bug = @ \/ s.item[s.loc.tree].hash_max = Zero32],
            s.loc.vp, s.loc.hash),
        s.loc.vp, s.loc.tree, s.item[s.loc.tree].tree_node)

\* try_to_merge_two_pages() from the trylock of the tree page on: the state
\* and "ok", "colli" or "fail"
TwoMergeTry(s, vp, tvp, page, tree_page, fault) ==
    IF fault = "trylock"
    THEN [st |-> s, res |-> "fail"]
    ELSE Bind(write_protect_page(s, tvp, tree_page, fault = "pin"), LAMBDA w :
            IF w.err
            THEN [st |-> w.st, res |-> "fail"]
            ELSE IF pages_identical(w.st, page, tree_page)
            THEN Bind(replace_page(w.st, tvp, tree_page, page, w.orig), LAMBDA r :
                    [st |-> r.st, res |-> IF r.err THEN "fail" ELSE "ok"])
            ELSE IF page_hash(w.st, page) = page_hash(w.st, tree_page)
            THEN [st |-> ChargeNeg(w.st, memcmp_cost + 2 * w.st.hash_strength),
                  res |-> "colli"]
            ELSE [st |-> w.st, res |-> "fail"])

\* what cmp_and_merge_page() does when try_to_merge_two_pages() failed; s is
\* the state after restore_out
TwoMergeFail(s, colli, vp, tvp) ==
    EndScanTree(IF colli THEN CollisionSibling(s) ELSE s, vp, tvp)

\* try_to_merge_two_pages() from the trylock of the tree page on, and what
\* cmp_and_merge_page() does when the merge failed
TwoMerge ==
    /\ ks.pc = "two_wp"
    /\ ScannerRuns
    /\ \E fault \in TwoFaults :
          /\ FaultOk(ks, fault)
          /\ ks' = Bind(TwoMergeTry([Charge(ks, fault) EXCEPT !.last = "two_merge"],
                                    ks.loc.vp, ks.loc.tree, ks.item[ks.loc.vp].page,
                                    ks.item[ks.loc.tree].page, fault),
                        LAMBDA m :
                           IF m.res = "ok"
                           THEN [m.st EXCEPT !.pc = "insert"]
                           ELSE TwoMergeFail(RestoreOut(m.st), m.res = "colli",
                                             ks.loc.vp, ks.loc.tree))
    /\ UNCHANGED <<hs, kh, ld, rh, lb, vo>>

InsertFaults == {"none", "no_tree_node", "no_stable_node", "no_node_vma"}

\* stable_tree_append() of an item whose merge succeeded, break_cow() of one
\* whose merge failed
AppendOrBreak(s, success, vp, n, nomem) ==
    IF s.bug THEN s
    ELSE IF success THEN stable_tree_append(s, vp, n, nomem) ELSE break_cow(s, vp)

\* cmp_and_merge_page() after stable_tree_insert()
InsertDone(r, vp, tvp, nomem) ==
    Bind(AppendOrBreak(AppendOrBreak(r.st, r.s1, vp, r.node, nomem),
                       r.s2, tvp, r.node, nomem), LAMBDA a :
        IF a.alloc_bug THEN a ELSE EndScanTree(Unlock(a), vp, tvp))

\* cmp_and_merge_page() after a successful try_to_merge_two_pages(): the
\* tree item leaves the unstable tree and the merged page enters the stable
\* tree, under the page lock of kpage.
StableInsert ==
    /\ ks.pc = "insert"
    /\ ScannerRuns
    /\ \E fault \in InsertFaults :
          /\ FaultOk(ks, fault)
          /\ ks' = InsertDone(
                      stable_tree_insert(
                          [remove_rmap_item_from_tree(
                              [Charge(ks, fault) EXCEPT !.last = "insert"],
                              ks.loc.tree)
                             EXCEPT !.plock = {ks.item[ks.loc.vp].page}],
                          ks.item[ks.loc.vp].page, ks.loc.hash, ks.loc.vp,
                          ks.loc.tree,
                          fault = "no_tree_node", fault = "no_stable_node"),
                      ks.loc.vp, ks.loc.tree, fault = "no_node_vma")
    /\ UNCHANGED <<hs, kh, ld, rh, lb, vo>>

(***************************************************************************)
(* The end of a scan round.                                                *)
(***************************************************************************)
\* A clear that leaves the counters of the area as they are.
ksm_intertab_clear_none(s, sl) == s

\* ksm_intertab_clear()
ksm_intertab_clear(s, sl) ==
    LET k == s.slot[sl].ksm_index
        row == {intertab_vma_offset(k, i) : i \in 0..k} \cup
               {intertab_vma_offset(k, i) : i \in (k + 1)..(s.index_end - 1)}
    IN  [s EXCEPT !.intertab = [o \in DOMAIN s.intertab |-> IF o \in row THEN 0 ELSE s.intertab[o]]]

\* the second loop of round_update_ladder(), from table index i on
RECURSIVE ClearTable(_, _)
ClearTable(s, i) ==
    IF i >= s.index_end
    THEN s
    ELSE LET sl == s.vma_table[i]
         IN  ClearTable(IF sl = 0
                        THEN s
                        ELSE [ksm_intertab_clear(s, sl) EXCEPT
                                 !.table_num = @ - 1,
                                 !.vma_table[i] = 0,
                                 !.slot[sl].ksm_index = -1,
                                 !.slot[sl].slot_scanned = FALSE],
                        i + 1)

\* the success and the failed: exit of stable_node_reinsert()
ReinsertAdd(s, n, t) == [StableLink(s, t, n) EXCEPT !.snode[n].tree_node = t]
ReinsertFailed(s, n) == [s EXCEPT !.snode[n].tree_node = NoNode]

\* stable_node_reinsert() at a tree node whose only child sn has a page
ReinsertSecond(s, n, sn, t) ==
    IF s.snode[n].hash_max = s.snode[sn].hash_max
    THEN ReinsertFailed(s, n)
    ELSE ReinsertAdd(s, n, t)

\* stable_node_reinsert() at a tree node with one child
ReinsertFirst(s, n, sn, t, hash) ==
    Bind(get_ksm_page(s, sn, TRUE, FALSE), LAMBDA r :
        IF r.page = NoFrame
        THEN ReinsertAdd(r.st, n, t)
        ELSE ReinsertSecond(put_page(stable_node_hash_max(r.st, sn, r.page, hash),
                                     r.page),
                            n, sn, t))

\* stable_node_reinsert() at an existing tree node t, hash_max of n known
ReinsertAt(s, n, t, hash) ==
    IF s.stn[t].members = {}
    THEN ReinsertFailed([s EXCEPT !.bug = TRUE], n)
    ELSE IF s.stn[t].count = 1
    THEN ReinsertFirst(s, n, CHOOSE x \in s.stn[t].members : TRUE, t, hash)
    ELSE IF \E x \in s.stn[t].members : s.snode[x].hash_max = s.snode[n].hash_max
    THEN ReinsertFailed(s, n)
    ELSE ReinsertAdd(s, n, t)

\* stable_node_reinsert()
stable_node_reinsert(s, n, page, idx, hash, nomem) ==
    LET ts == TreeFind(s.stn, s.sroot[idx], hash)
        t == Smallest(FreeSTree(s))
    IN  IF ts # {}
        THEN ReinsertAt(stable_node_hash_max(s, n, page, hash), n,
                        CHOOSE x \in ts : TRUE, hash)
        ELSE IF nomem \/ FreeSTree(s) = {}
        THEN ReinsertFailed(s, n)
        ELSE ReinsertAdd([s EXCEPT !.stn[t] = [TreeNode0 EXCEPT !.hash = hash],
                                   !.slist[idx] = @ \cup {t},
                                   !.sroot[idx] = @ \cup {t}],
                         n, t)

\* the hash stable_tree_delta_hash() gives the page of node n
DeltaHash(s, n, page, prev) ==
    IF s.snode[n].tree_node # NoNode
    THEN delta_hash(RandomNums, ContentWords(s.content[page]), prev,
                    s.hash_strength, s.stn[s.snode[n].tree_node].hash)
    ELSE page_hash(s, page)

\* the body of the loop of stable_tree_delta_hash() after get_ksm_page()
DeltaNode(r, n, idx, prev, nomem) ==
    IF r.page = NoFrame
    THEN r.st
    ELSE put_page(stable_node_reinsert(r.st, n, r.page, idx,
                                       DeltaHash(r.st, n, r.page, prev), nomem),
                  r.page)

\* the loop of stable_tree_delta_hash() over stable_node_list
RECURSIVE DeltaLoop(_, _, _, _, _)
DeltaLoop(s, nodes, idx, prev, nomem) ==
    IF nodes = <<>>
    THEN s
    ELSE DeltaLoop(IF ~s.snode[Head(nodes)].live
                   THEN s
                   ELSE DeltaNode(get_ksm_page(s, Head(nodes), FALSE, FALSE),
                                  Head(nodes), idx, prev, nomem),
                   Tail(nodes), idx, prev, nomem)

\* the end of stable_tree_delta_hash(): the tree nodes of the old tree are
\* freed, root_stable_treep moves to the new tree
DeltaSwitch(s, idx) ==
    [s EXCEPT !.rootp = idx,
              !.stn = [t \in STreeIds |->
                         IF t \in s.slist[s.rootp] THEN TreeNode0 ELSE s.stn[t]],
              !.slist[s.rootp] = {},
              !.last = "rehash"]

\* stable_tree_delta_hash() from the loop on
DeltaFrom(s, idx, prev, nomem) ==
    DeltaSwitch(DeltaLoop(s, s.snlist, idx, prev, nomem), idx)

\* stable_tree_delta_hash()
stable_tree_delta_hash(s, prev, nomem) ==
    DeltaFrom([s EXCEPT !.stable_tree_index = (s.stable_tree_index + 1) % 2,
                        !.sroot[(s.stable_tree_index + 1) % 2] = {},
                        !.bug = @ \/ s.slist[(s.stable_tree_index + 1) % 2] # {}],
              (s.stable_tree_index + 1) % 2, prev, nomem)

\* rshash_adjust(): the controller's decision is the new strength
rshash_adjust(s, strength, nomem) ==
    IF s.pages_scanned = s.pages_scanned_last
    THEN s
    ELSE IF strength = s.hash_strength
    THEN s
    ELSE stable_tree_delta_hash([s EXCEPT !.hash_strength = strength],
                                s.hash_strength, nomem)

\* round_update_ladder() after its second loop
LadderReset(s) ==
    [s EXCEPT !.bug = @ \/ s.table_num # 0
                        \/ \E sl \in DOMAIN s.slot : s.slot[sl].ksm_index # -1,
              !.index_end = 0,
              !.round_finished = FALSE,
              !.slot = [sl \in DOMAIN s.slot |->
                          [s.slot[sl] EXCEPT !.slot_scanned = FALSE,
                                             !.pages_merged = 0,
                                             !.fully_scanned = FALSE]]]

LadderEnd(s) == [s EXCEPT !.pages_scanned_last = s.pages_scanned]

\* round_update_ladder()
round_update_ladder(s, strength, nomem) ==
    LadderEnd(rshash_adjust(LadderReset(ClearTable(s, 0)), strength, nomem))

\* the strengths one step of inc_hash_strength / dec_hash_strength away
Strengths(s) ==
    {s.hash_strength,
     IF s.hash_strength + 1 > HASH_STRENGTH_MAX THEN HASH_STRENGTH_MAX ELSE s.hash_strength + 1,
     IF s.hash_strength <= 2 THEN 1 ELSE s.hash_strength - 1}

\* ksm_scan_round++ and the reset of the unstable tree
RoundReset(s) ==
    [s EXCEPT !.neg = 0,
              !.scan_round = @ + 1,
              !.rounds = @ + 1,
              !.uroot = {},
              !.ulist = {},
              !.utn = [t \in UTreeIds |-> TreeNode0]]

\* The round_finished branch of ksm_do_scan().
RoundEnd ==
    /\ ks.pc = "idle"
    /\ ScannerRuns
    /\ ks.round_finished
    /\ ks.rounds < MaxRounds
    /\ \E strength \in Strengths(ks), fault \in {"none", "no_tree_node"} :
          /\ FaultOk(ks, fault)
          /\ ks' = RoundReset(round_update_ladder(
                                  [Charge(ks, fault) EXCEPT !.last = "round"],
                                  strength, fault = "no_tree_node"))
    /\ UNCHANGED <<hs, kh, ld, rh, lb, vo>>

(***************************************************************************)
(* The host: the processes that own the pages.                             *)
(***************************************************************************)
\* the page lock the scanner holds between two of its steps
PageLocked(s, f) == s.pc = "ksm_wp" /\ s.item[s.loc.vp].page = f

\* A store to the address: in place when the pte is writable or the page is
\* an anonymous page only this pte maps (do_wp_page reuses it, after taking
\* the page lock); into a fresh copy when the page is a KSM page; into a
\* fresh page when nothing is mapped.
HostWriteTo(vps, cs, cost) ==
    /\ ~ks.bug
    /\ ks.events + cost <= MaxEvents
    /\ \E vp \in vps, c \in cs :
          LET f == ks.pte[vp].f
              s == [ks EXCEPT !.events = @ + cost, !.last = "host", !.coll = NoItem]
          IN  IF f # NoFrame /\ (ks.pte[vp].w \/ ~PageKsm(ks, f))
              THEN /\ ks.pte[vp].w \/ ~PageLocked(ks, f)
                   /\ ks.pte[vp].w => ks.content[f] # c
                   /\ ks' = [s EXCEPT !.pte[vp].w = TRUE, !.content[f] = c]
              ELSE /\ FreeFrames(ks) # {}
                   /\ LET g == NextFrame(ks)
                      IN  ks' = Reap([s EXCEPT !.pte[vp] = [f |-> g, w |-> TRUE],
                                               !.pkind[g] = "anon",
                                               !.owner[g] = vp,
                                               !.content[g] = c])
    /\ UNCHANGED <<hs, kh, ld, rh, lb, vo>>

HostWrite == HostWriteTo(VPages, Contents, 1)

\* A store to an address that maps the KSM page the host has pinned: the
\* copy-on-write fault.  The stores follow the pin at once.
HostCow ==
    /\ ks.pin # NoFrame
    /\ ks.last = "host"
    /\ HostWriteTo({vp \in VPages : ks.pte[vp].f = ks.pin /\ PageKsm(ks, ks.pin)},
                   {2}, 0)

\* The host takes a reference of its own on a KSM page without an rmap item
\* for it (get_user_pages for reading, the mapping of a forked child), here
\* once, at a round boundary, on a page of the first area.
HostPin ==
    /\ ~ks.bug
    /\ ks.pin = NoFrame
    /\ ks.last \in {"round", "rehash"}
    /\ \E f \in {ks.pte[vp].f : vp \in PagesOf(1)} :
          /\ f # NoFrame
          /\ PageKsm(ks, f)
          /\ ks' = [get_page(ks, f) EXCEPT !.pin = f, !.last = "host",
                                            !.coll = NoItem]
    /\ UNCHANGED <<hs, kh, ld, rh, lb, vo>>

\* The address is unmapped (munmap, madvise(DONTNEED), reclaim).
HostUnmap ==
    /\ ~ks.bug
    /\ ks.events < MaxEvents
    /\ \E vp \in VPages :
          /\ ks.pte[vp].f # NoFrame
          /\ ks' = Reap([ks EXCEPT !.pte[vp] = Pte0, !.events = @ + 1,
                                   !.last = "host", !.coll = NoItem])
    /\ UNCHANGED <<hs, kh, ld, rh, lb, vo>>

\* the loop of ksm_del_vma_slot() over ksm_vma_table
TableDrop(s, sl) ==
    IF s.slot[sl].ksm_index = -1
    THEN s
    ELSE [ksm_intertab_clear(s, sl) EXCEPT
             !.table_num = @ - 1,
             !.vma_table[s.slot[sl].ksm_index] = 0,
             !.index_end = IF s.slot[sl].ksm_index = @ - 1 THEN @ - 1 ELSE @]

\* the loop of ksm_del_vma_slot() over the entries of the slot's pools:
\* remove_rmap_item_from_tree() and free_rmap_item() of every item
RECURSIVE DelItems(_, _)
DelItems(s, vps) ==
    IF vps = {}
    THEN s
    ELSE DelItems(IF s.item[Smallest(vps)].exists
                  THEN [remove_rmap_item_from_tree(s, Smallest(vps)) EXCEPT
                           !.item[Smallest(vps)] = Item0]
                  ELSE s,
                  vps \ {Smallest(vps)})

\* ksm_del_vma_slot() of a slot with rmap_items: the slot is freed; an
\* area that is mapped there later gets a slot that is new
DelSlotItems(s, sl) ==
    [DelItems(TableDrop(s, sl), PagesOf(sl)) EXCEPT !.slot[sl] = Slot0]

\* The teardown of an area: the host unmaps it (ksm_remove_vma puts its
\* slot on vma_slot_del) and the scanner, between two pages, frees the slot
\* in cleanup_vma_slots().
AreaTeardown ==
    /\ ks.pc = "idle"
    /\ ScannerRuns
    /\ ks.events < MaxEvents
    /\ \E sl \in Slots :
          /\ \E vp \in PagesOf(sl) : ks.item[vp].exists
          /\ ks' = DelSlotItems(
                      Reap([ks EXCEPT !.pte = [vp \in VPages |->
                                                 IF SlotOf(vp) = sl THEN Pte0 ELSE @[vp]],
                                      !.events = @ + 1,
                                      !.last = "teardown",
                                      !.coll = NoItem]),
                      sl)
    /\ UNCHANGED <<hs, kh, ld, rh, lb, vo>>

Next ==
    \/ ScanStart
    \/ KsmProtect
    \/ KsmMerge
    \/ TwoProtect
    \/ TwoMerge
    \/ StableInsert
    \/ RoundEnd
    \/ HostWrite
    \/ HostUnmap

(***************************************************************************)
(* Memory hot-remove: ksm_memory_callback().                               *)
(***************************************************************************)
\* the frame ranges the host takes offline: <<start_pfn, end_pfn>>, the end
\* not included; a memory section is one frame here
OfflineRanges == {<<f, f + 1>> : f \in Frames}

InRange(f, range) == f >= range[1] /\ f < range[2]

\* MEM_GOING_OFFLINE: mutex_lock(&ksm_thread_mutex), which waits for the
\* scanner to leave ksm_do_scan().
MemGoingOffline ==
    /\ ~ks.bug
    /\ ~ks.offlining
    /\ ks.pc = "idle"
    /\ \E range \in OfflineRanges :
          ks' = [ks EXCEPT !.offlining = TRUE, !.offrange = range,
                           !.last = "mem_going", !.coll = NoItem]
    /\ UNCHANGED <<hs, kh, ld, rh, lb, vo>>

\* ksm_check_stable_tree(): the walk from rb_first(root_stable_treep) takes
\* every node of the first level, a tree_node, for a stable_node and reads
\* its kpfn there.  hits: the tree nodes where the value read lies in the
\* range.  With a hit remove_node_from_stable_tree() is run on a tree_node;
\* without one the walk returns NULL and nothing is pruned.
ksm_check_stable_tree(s, hits) ==
    IF hits \cap s.sroot[s.rootp] # {}
    THEN [s EXCEPT !.bug = TRUE]
    ELSE s

\* MEM_OFFLINE: the host has migrated or freed every page of the range; the
\* left-over stable nodes are pruned, then the mutex is released.
MemOffline ==
    /\ ~ks.bug
    /\ ks.offlining
    /\ \A f \in Frames : InRange(f, ks.offrange) => ks.pkind[f] = "free"
    /\ \E hits \in SUBSET STreeIds :
          ks' = [ksm_check_stable_tree(ks, hits) EXCEPT
                    !.offlining = FALSE, !.last = "mem_offline"]
    /\ UNCHANGED <<hs, kh, ld, rh, lb, vo>>

\* MEM_CANCEL_OFFLINE: mutex_unlock(&ksm_thread_mutex)
MemCancelOffline ==
    /\ ~ks.bug
    /\ ks.offlining
    /\ ks' = [ks EXCEPT !.offlining = FALSE, !.offrange = <<0, 0>>,
                         !.last = "mem_cancel"]
    /\ UNCHANGED <<hs, kh, ld, rh, lb, vo>>

\* The scanner, a host that unmaps pages, and memory hot-remove.
NextOffline ==
    \/ ScanStart
    \/ KsmProtect
    \/ KsmMerge
    \/ TwoProtect
    \/ TwoMerge
    \/ StableInsert
    \/ RoundEnd
    \/ HostUnmap
    \/ MemGoingOffline
    \/ MemOffline
    \/ MemCancelOffline

\* The scanner, the host, and the teardown of areas.
NextTeardown ==
    \/ ScanStart
    \/ KsmProtect
    \/ KsmMerge
    \/ TwoProtect
    \/ TwoMerge
    \/ StableInsert
    \/ RoundEnd
    \/ HostWrite
    \/ HostUnmap
    \/ AreaTeardown

\* The scanner over areas of identical pages, with a host that pins KSM
\* pages and writes to them.
NextPinned ==
    \/ ScanStart
    \/ KsmProtect
    \/ KsmMerge
    \/ TwoProtect
    \/ TwoMerge
    \/ StableInsert
    \/ RoundEnd
    \/ HostCow
    \/ HostPin

InitKsm == KsmInit /\ HashIdle /\ KeyholeIdle /\ LadderIdle /\ RshashIdle /\ BuildIdle /\ OrderIdle

(***************************************************************************)
(* The NodeVma lists and the inter-area table under the calls of           *)
(* stable_tree_append() and remove_rmap_item_from_tree() alone: the items  *)
(* of AppendAreas areas are appended to and removed from the stable node   *)
(* of a KSM page in any order, over several rounds.                        *)
(***************************************************************************)
\* the areas, the items of each area that are merged, the rounds and the
\* removals that are followed
AppendAreas == 3
AppendPerArea == 2
AppendRounds == 1
AppendRemovals == 1

AreaIds == 1..AppendAreas

\* the rmap_items that are appended: the first AppendPerArea of each area
AppendItems ==
    {vp \in 1..(AppendAreas * PagesPerSlot) : (vp - 1) % PagesPerSlot < AppendPerArea}

\* The state after stable_tree_insert() has put the page of frame 1 into
\* the stable tree and before the first stable_tree_append(): the NodeVma
\* list of its stable node is empty.  The inter-area
\* table has one entry more than there are areas.
AppendBase ==
    [KsmStart([vp \in VPages |-> 1]) EXCEPT
        !.slot = [sl \in AreaIds |-> Slot0],
        !.item = [vp \in 1..(AppendAreas * PagesPerSlot) |-> Item0],
        !.vma_table = [x \in 0..AppendAreas |-> 0],
        !.intertab = [x \in 0..intertab_vma_offset(AppendAreas, AppendAreas) |-> 0],
        !.pte[1].w = FALSE]

AppendNode(s, kpage) ==
    InsertTreeNode(s, kpage, page_hash(s, kpage), Smallest(FreeSTree(s)), FALSE).st

AppendStart == AppendNode(AppendBase, 1)

AppendInit == ks = AppendStart

\* stable_tree_append(rmap_item, stable_node) under the lock of the node's
\* page; nomem is a failed alloc_node_vma()
AppendCall ==
    /\ ~ks.bug
    /\ \E vp \in AppendItems, n \in NodeIds, nomem \in BOOLEAN :
          /\ ks.snode[n].live
          /\ ~ks.item[vp].stable
          /\ ks' = [stable_tree_append([ks EXCEPT !.plock = {ks.snode[n].kpfn}],
                                       vp, n, nomem)
                      EXCEPT !.plock = {}, !.last = "append"]
    /\ UNCHANGED <<hs, kh, ld, rh, lb, vo>>

\* remove_rmap_item_from_tree(rmap_item) of an item on a stable node
RemoveCall ==
    /\ ~ks.bug
    /\ \E vp \in AppendItems :
          /\ ks.item[vp].stable
          /\ ks.events < AppendRemovals
          /\ ks' = [remove_rmap_item_from_tree(ks, vp) EXCEPT
                       !.last = "remove", !.events = @ + 1]
    /\ UNCHANGED <<hs, kh, ld, rh, lb, vo>>

\* the round boundary: the second loop of round_update_ladder() empties
\* the inter-area table, ksm_scan_round++
AppendRound ==
    /\ ~ks.bug
    /\ ks.scan_round <= AppendRounds
    /\ ks' = [LadderReset(ClearTable(ks, 0)) EXCEPT
                 !.scan_round = @ + 1, !.last = "round"]
    /\ UNCHANGED <<hs, kh, ld, rh, lb, vo>>

NextAppend == AppendCall \/ RemoveCall \/ AppendRound

(***************************************************************************)
(* The inter-area table alone: ksm_vma_table with TableMax entries and     *)
(* ksm_inter_vma_table with TableMax * TableMax / 2 counters, as ksm_init()*)
(* allocates them, and TableMax areas that enter and leave the table.      *)
(***************************************************************************)
\* KSM_DUP_VMA_MAX and ksm_vma_table_size (2048 in the source), and the
\* largest value of a counter that is followed
TableMax == 4
MaxPairCount == 1

TableAreas == 1..TableMax

\* the number of counters ksm_init() allocates for ksm_inter_vma_table
InterTableSize == (TableMax * TableMax) \div 2

\* The scanner's state with empty tables.  The counters behind the end of
\* ksm_inter_vma_table are the memory that follows it.
TableStart ==
    [KsmStart([vp \in VPages |-> 1]) EXCEPT
        !.slot = [sl \in TableAreas |-> Slot0],
        !.vma_table = [x \in 0..(TableMax - 1) |-> 0],
        !.intertab = [x \in 0..intertab_vma_offset(TableMax, TableMax) |-> 0]]

TableInit == ks = TableStart

\* inc_vma_intertab_pair(slot1, slot2), called by stable_tree_append for
\* two areas that share a page
TablePair ==
    /\ ~ks.bug
    /\ \E a, b \in TableAreas :
          /\ ks.slot[a].ksm_index # -1 /\ ks.slot[b].ksm_index # -1 =>
                PairCountOf(ks, a, b) < MaxPairCount
          /\ ks' = [inc_vma_intertab_pair(ks, a, b) EXCEPT !.last = "pair"]
    /\ UNCHANGED <<hs, kh, ld, rh, lb, vo>>

\* the loop of ksm_del_vma_slot() over ksm_vma_table for an area that is
\* removed; the area may come back with a new slot
TableLeave ==
    /\ ~ks.bug
    /\ \E a \in TableAreas :
          /\ ks.slot[a].ksm_index # -1
          /\ ks' = [TableDrop(ks, a) EXCEPT !.slot[a] = Slot0, !.last = "leave"]
    /\ UNCHANGED <<hs, kh, ld, rh, lb, vo>>

\* the round boundary: the second loop of round_update_ladder() and the
\* reset of ksm_vma_table_index_end
TableRound ==
    /\ ~ks.bug
    /\ ks.table_num > 0
    /\ ks' = [LadderReset(ClearTable(ks, 0)) EXCEPT !.last = "round"]
    /\ UNCHANGED <<hs, kh, ld, rh, lb, vo>>

NextTable == TablePair \/ TableLeave \/ TableRound

(***************************************************************************)
(* The cost accounting of page_hash() under the hash-strength controller:  *)
(* every scanned page credits rshash_pos with HASH_STRENGTH_FULL minus the *)
(* strength, in the unsigned arithmetic of the build.                      *)
(***************************************************************************)
\* The width of u64 (64 in the source) and the width of unsigned long on a
\* build with 32-bit longs (32 in the source), on the controller's short
\* range of strengths.
PosBits == 8
Long32Bits == 5

\* HASH_STRENGTH_FULL as the controller sees it
StrengthFull == StrengthScale * HASH_STRENGTH_FULL

\* the widths of unsigned long: a 64-bit build and a 32-bit build
LongWidths == {PosBits, Long32Bits}

\* rshash_pos += (HASH_STRENGTH_FULL - hash_strength): the difference is an
\* unsigned long, the sum a u64
CreditPos(c) ==
    (c.rshash_pos + ((StrengthFull - c.hash_strength) % Pow2(c.long_bits)))
        % Pow2(PosBits)

\* the cost accounting of page_hash(page, hash_strength, 1):
\* tmp = rshash_pos (an unsigned long); rshash_pos += ...;
\* BUG_ON(tmp > rshash_pos)
page_hash_cost(c) ==
    [c EXCEPT !.rshash_pos = CreditPos(c),
              !.pos_bug = @ \/ (c.rshash_pos % Pow2(c.long_bits)) > CreditPos(c)]

CreditInit ==
    \E s \in 1..StrengthFull, w \in LongWidths :
        rh = [RshashStart(s) EXCEPT !.long_bits = w]

\* cmp_and_merge_page() on one page: page_hash() with cost accounting, and
\* neg, the costs that the comparisons and the hash_max values of the page
\* add to rshash_neg
CreditPage ==
    /\ rh.pc = "scan" /\ ~rh.pos_bug
    /\ rh.ksm_scan_round < MaxCtlRounds
    /\ rh.scanned < MaxRoundPages
    /\ \E neg \in 0..MaxCost :
          rh' = [page_hash_cost(rh) EXCEPT !.scanned = @ + 1,
                                           !.rshash_neg = @ + neg]
    /\ UNCHANGED <<hs, kh, ks, ld, lb, vo>>

\* the round is finished
CreditEnd ==
    /\ rh.pc = "scan" /\ ~rh.pos_bug
    /\ rh.ksm_scan_round < MaxCtlRounds
    /\ rh' = [rh EXCEPT !.pc = "boundary",
                        !.was = rh.state, !.was_strength = rh.hash_strength,
                        !.was_delta = rh.hash_strength_delta,
                        !.ratio = 0, !.benefit = 0,
                        !.judged = "none", !.rehash_from = 0]
    /\ UNCHANGED <<hs, kh, ks, ld, lb, vo>>

NextCredit == CreditPage \/ CreditEnd \/ RshashRound

(***************************************************************************)
(* The stable insert against a host that unmaps ranges of an area.         *)
(***************************************************************************)
\* munmap() or madvise(MADV_DONTNEED) of the pages lo..hi of one area: every
\* pte of the range is cleared in the one call, and a KSM page that loses
\* its last mapping is freed
HostUnmapRange ==
    /\ ~ks.bug
    /\ ks.events < MaxEvents
    /\ \E sl \in Slots, lo \in VPages, hi \in VPages :
          /\ lo <= hi
          /\ {lo, hi} \subseteq PagesOf(sl)
          /\ \E vp \in lo..hi : ks.pte[vp].f # NoFrame
          /\ ks' = Reap([ks EXCEPT !.pte = [vp \in VPages |->
                                              IF vp \in lo..hi THEN Pte0 ELSE @[vp]],
                                   !.events = @ + 1,
                                   !.last = "host",
                                   !.coll = NoItem])
    /\ UNCHANGED <<hs, kh, ld, rh, lb, vo>>

\* The scanner over two areas of different pages whose hashes collide.
NextInsert ==
    \/ ScanStart
    \/ KsmProtect
    \/ KsmMerge
    \/ TwoProtect
    \/ TwoMerge
    \/ StableInsert
    \/ RoundEnd
    \/ HostUnmapRange
vars == <<hs, kh, ks, ld, rh, lb, vo>>

InitHash == HashInit /\ KeyholeIdle /\ KsmIdle /\ LadderIdle /\ RshashIdle /\ BuildIdle /\ OrderIdle

InitKeyhole == KeyholeInit /\ HashIdle /\ KsmIdle /\ LadderIdle /\ RshashIdle /\ BuildIdle /\ OrderIdle

SpecHash == InitHash /\ [][DeltaStep]_vars

SpecKeyhole == InitKeyhole /\ [][KeyholeNext]_vars

Spec == InitKsm /\ [][Next]_vars

InitPinned == KsmApart /\ HashIdle /\ KeyholeIdle /\ LadderIdle /\ RshashIdle /\ BuildIdle /\ OrderIdle

SpecPinned == InitPinned /\ [][NextPinned]_vars

SpecOffline == InitPinned /\ [][NextOffline]_vars

SpecTeardown == InitKsm /\ [][NextTeardown]_vars

InitLadder == LadderInit /\ HashIdle /\ KeyholeIdle /\ KsmIdle /\ RshashIdle /\ BuildIdle /\ OrderIdle

SpecLadder == InitLadder /\ [][NextLadder]_vars

InitCursor == CursorInit /\ HashIdle /\ KeyholeIdle /\ KsmIdle /\ RshashIdle /\ BuildIdle /\ OrderIdle

SpecCursor == InitCursor /\ [][NextCursor]_vars

InitAdmit ==
    AdmitInit /\ HashIdle /\ KeyholeIdle /\ KsmIdle /\ RshashIdle /\ BuildIdle /\ OrderIdle

SpecAdmit == InitAdmit /\ [][NextAdmit]_vars

InitBuild ==
    BuildInit /\ HashIdle /\ KeyholeIdle /\ KsmIdle /\ LadderIdle /\ RshashIdle /\ OrderIdle

SpecBuild == InitBuild /\ [][NextBuild]_vars

InitRshash ==
    RshashInit /\ HashIdle /\ KeyholeIdle /\ KsmIdle /\ LadderIdle /\ BuildIdle /\ OrderIdle

SpecRshash == InitRshash /\ [][NextRshash]_vars


(***************************************************************************)
(* What the properties below speak of.                                     *)
(***************************************************************************)
\* the stable nodes that are allocated
LiveNodes(s) == {n \in NodeIds : s.snode[n].live}
\* the NodeVmas of all stable nodes that hold the item of vp
NodeVmasOf(s, vp) ==
    {<<n, i>> \in NodeIds \X (1..NumVP) :
        /\ s.snode[n].live
        /\ i \in DOMAIN s.snode[n].hlist
        /\ vp \in s.snode[n].hlist[i].items}
\* the unstable tree nodes that hold the item of vp
UnstableNodesOf(s, vp) == {t \in s.uroot : vp \in s.utn[t].members}
\* the stable nodes a walk of the current stable tree comes by
InStableTree(s) == UNION {s.stn[t].members : t \in s.sroot[s.rootp]}
\* the items that carry STABLE_FLAG
StableItems(s) == {vp \in VPages : s.item[vp].stable}
\* the page the scanner takes next is a KSM page whose item is in the stable
\* graph of that page
NextIsMerged(s) ==
    /\ s.pc = "idle"
    /\ ~s.bug
    /\ ~rung_fully_scanned(s)
    /\ s.rounds < MaxRounds
    /\ ~s.slot[s.cursor].fully_scanned
    /\ LET vp == NextPage(s, s.cursor)
       IN  /\ s.pte[vp].f # NoFrame
           /\ PageKsm(s, s.pte[vp].f)
           /\ s.item[vp].exists
           /\ s.item[vp].stable
           /\ s.item[vp].head = s.pnode[s.pte[vp].f]

\* C1: the scanner repoints a pte to another frame only when the page it
\* replaces is mapped read-only there and is byte-equal to the target frame
\* at that moment, whatever the host wrote, unmapped or copied in between.
C1_NoIncorrectAliasing == ks.alias_ok

\* try_to_merge_with_ksm_page, try_to_merge_two_pages and
\* try_merge_with_stable have each repointed a pte, with host writes or
\* unmaps among the scanner's steps.
C1_Witness ==
    /\ {"ksm_wp", "two_wp", "insert"} \subseteq ks.merged
    /\ ks.events > 0
    /\ ks.pages_sharing > 0

\* C2: between scanner steps no item carries both flags, an item with
\* STABLE_FLAG is linked in exactly one NodeVma of one stable node, and an
\* item with neither flag is in no tree and in no stable node.
C2_FlagsAndLinks ==
    ks.pc = "idle" =>
        \A vp \in VPages :
            /\ ~(ks.item[vp].stable /\ ks.item[vp].unstable)
            /\ ks.item[vp].stable => Cardinality(NodeVmasOf(ks, vp)) = 1
            /\ (~ks.item[vp].stable /\ ~ks.item[vp].unstable) =>
                  (NodeVmasOf(ks, vp) = {} /\ UnstableNodesOf(ks, vp) = {})

\* Items of all three kinds stand side by side after an item has left the
\* stable graph again.
C2_Witness ==
    /\ ks.pc = "idle"
    /\ \E a, b, c \in VPages :
          /\ ks.item[a].stable
          /\ ks.item[b].unstable
          /\ ks.item[c].exists /\ ~ks.item[c].stable /\ ~ks.item[c].unstable
    /\ ks.events > 0

\* C3: after every sequence of calls of stable_tree_append,
\* remove_rmap_item_from_tree and remove_node_from_stable_tree that have
\* returned (the scanner is not stopped inside stable_tree_append by its
\* BUG_ON), pages_shared + pages_sharing is the number of items with
\* STABLE_FLAG, pages_shared the number of stable nodes with a NodeVma.
C3_SharedSharing ==
    ~ks.alloc_bug =>
        /\ ks.pages_shared + ks.pages_sharing = Cardinality(StableItems(ks))
        /\ ks.pages_shared =
              Cardinality({n \in LiveNodes(ks) : ks.snode[n].hlist # <<>>})

\* A stale node was removed by a failed lookup after pages had been merged
\* into it, and pages are shared again.
C3_Witness ==
    /\ ks.pages_sharing > 0
    /\ ks.pages_shared > 0
    /\ ks.pruned

\* C4: between scanner steps the count of every first-level tree node of
\* the stable and of the unstable tree is the number of its children.
C4_CountIsChildren ==
    ks.pc = "idle" =>
        /\ \A t \in ks.uroot : ks.utn[t].count = Cardinality(ks.utn[t].members)
        /\ \A t \in ks.sroot[ks.rootp] :
              ks.stn[t].count = Cardinality(ks.stn[t].members)

\* C5: when the round counter has just been incremented the unstable tree
\* and its node list are empty, every counter of the inter-area table is
\* zero and no area holds an index into it.
C5_RoundEndClean ==
    ks.last \in {"round", "rehash"} =>
        /\ ks.uroot = {}
        /\ ks.ulist = {}
        /\ \A o \in InterIdx : ks.intertab[o] = 0
        /\ \A sl \in Slots : ks.slot[sl].ksm_index = -1
        /\ \A i \in TableIdx : ks.vma_table[i] = 0

\* A round has ended in which pairs of areas had been counted.
C5_Witness ==
    /\ ks.last \in {"round", "rehash"}
    /\ ks.paired
    /\ ks.pages_sharing > 0

\* C6: whatever the host does to the page meanwhile, get_ksm_page either
\* returns a page whose mapping is the stable node's key and on which the
\* caller holds a reference of its own, or takes the node out of the stable
\* graph and returns none; a page whose mapping points elsewhere is never
\* returned.
C6_KeyholeSafe ==
    /\ kh.pc = "returned" => (kh.mapping = "node" /\ kh.count > kh.hostrefs)
    /\ kh.pc = "none" => ~kh.linked

\* The race happened: the first comparison saw the key, the page was freed
\* and reused before the reference was taken, and the lookup returned none.
C6_Witness ==
    /\ kh.pc = "none"
    /\ kh.passed1
    /\ kh.mapping = "other"
    /\ kh.count > 0
    /\ ~kh.linked

\* C7: the hash brought from strength `from` to strength `to` by delta_hash
\* is bit for bit random_sample_hash at `to`, for every page, permutation
\* and pair of strengths in [1, HASH_STRENGTH_MAX].
C7_DeltaHashExact ==
    hs.hash = random_sample_hash(hs.rn, hs.key, hs.strength)

\* A step across HASH_STRENGTH_FULL downwards has been taken.
C7_Witness ==
    /\ hs.steps > 0
    /\ hs.prev > HASH_STRENGTH_FULL
    /\ hs.strength < HASH_STRENGTH_FULL
    /\ hs.hash = random_sample_hash(hs.rn, hs.key, hs.strength)

\* C8: after stable_tree_delta_hash every stable node linked in the new
\* tree hangs under a tree node whose hash is random_sample_hash of the
\* node's page at the new strength, and the old tree-node list is empty.
C8_RehashedKeys ==
    ks.last = "rehash" =>
        /\ \A t \in ks.sroot[ks.rootp] : \A n \in ks.stn[t].members :
              ks.stn[t].hash = page_hash(ks, ks.snode[n].kpfn)
        /\ ks.slist[1 - ks.rootp] = {}

\* C9 as stated: between scanner steps a stable node is in the current
\* stable tree exactly if its page still carries the mapping that points
\* back to it.
C9_ReachableIffMarked ==
    ks.pc = "idle" =>
        \A n \in LiveNodes(ks) :
            n \in InStableTree(ks) <=> page_has_key(ks, ks.snode[n].kpfn, n)

\* C9 as the code has it: a stable node whose page carries the mapping that
\* points back to it is in the current stable tree unless its reinsertion
\* failed and left its tree_node NULL; a node whose page lost the mapping
\* stays linked until the next get_ksm_page on it.
C9_MarkedAndFiledIsReachable ==
    ks.pc = "idle" =>
        \A n \in LiveNodes(ks) :
            (page_has_key(ks, ks.snode[n].kpfn, n) /\ ks.snode[n].tree_node # NoNode)
                => n \in InStableTree(ks)

\* After a delta rehash a node with its page still marked is in the new
\* tree, and a node whose page the host has freed since is still linked.
C9_Witness ==
    /\ ks.pc = "idle"
    /\ ks.rootp = 1
    /\ \E n \in LiveNodes(ks) :
          /\ page_has_key(ks, ks.snode[n].kpfn, n)
          /\ ks.snode[n].tree_node # NoNode
          /\ n \in InStableTree(ks)
    /\ \E m \in LiveNodes(ks) :
          ~page_has_key(ks, ks.snode[m].kpfn, m) /\ m \in InStableTree(ks)

\* C10: a scan step over a page that is already a KSM page with its item in
\* the stable graph creates no stable node, leaves pages_shared and
\* pages_sharing as they are, does not decrease pages_scanned and changes
\* no pte.
C10_Idempotent ==
    [][(NextIsMerged(ks) /\ ks'.last \notin {"host", "round", "rehash"}) =>
          /\ LiveNodes(ks') = LiveNodes(ks)
          /\ ks'.snode = ks.snode
          /\ ks'.pages_shared = ks.pages_shared
          /\ ks'.pages_sharing = ks.pages_sharing
          /\ ks'.pages_scanned >= ks.pages_scanned
          /\ ks'.pte = ks.pte
          /\ ks'.content = ks.content]_vars

\* The scanner has just passed over a merged page in the round after the
\* one that merged it.
C10_Witness ==
    /\ ks.last = "skip"
    /\ ks.rounds > 0
    /\ ks.pages_sharing > 0

InitOrder ==
    OrderInit /\ HashIdle /\ KeyholeIdle /\ KsmIdle /\ LadderIdle /\ RshashIdle /\ BuildIdle

\* The visit order of one area over MaxPasses passes.
SpecOrder == InitOrder /\ [][NextOrder]_vars

InitAppend ==
    AppendInit /\ HashIdle /\ KeyholeIdle /\ LadderIdle /\ RshashIdle /\ BuildIdle /\ OrderIdle

SpecAppend == InitAppend /\ [][NextAppend]_vars

InitTable ==
    TableInit /\ HashIdle /\ KeyholeIdle /\ LadderIdle /\ RshashIdle /\ BuildIdle /\ OrderIdle

SpecTable == InitTable /\ [][NextTable]_vars

\* The cost accounting of page_hash under the controller.
InitCredit ==
    CreditInit /\ HashIdle /\ KeyholeIdle /\ KsmIdle /\ LadderIdle /\ BuildIdle /\ OrderIdle

SpecCredit == InitCredit /\ [][NextCredit]_vars

\* The ladder over rounds with areas that the host removes.
InitRound == RoundInit /\ HashIdle /\ KeyholeIdle /\ KsmIdle /\ RshashIdle /\ BuildIdle /\ OrderIdle

SpecRound == InitRound /\ [][NextRound]_vars

InitScan == ScanInit /\ HashIdle /\ KeyholeIdle /\ KsmIdle /\ RshashIdle /\ BuildIdle /\ OrderIdle

\* ksm_do_scan with its budgets; the scanner thread keeps running.
SpecScan == InitScan /\ [][NextScan]_vars /\ WF_vars(ScannerNext)

\* The stable tree under inserts whose only child vanished.
SpecInsert == InitPinned /\ [][NextInsert]_vars
\* The pages of all areas are still the frames they started with or merged
\* frames of the starting content, and nothing disturbed the scanner: no
\* host write, unmap, busy lock or failed allocation has happened.
Undisturbed(s) ==
    /\ s.events = 0
    /\ \A vp \in VPages : s.pte[vp].f # NoFrame /\ s.content[s.pte[vp].f] = 1

\* C11: when all areas map pages of identical content and nothing disturbs
\* the scanner, at the end of the first scan round pages_shared is 1,
\* pages_sharing is the number of pages less one, and all virtual pages
\* resolve to the same frame.
C11_OneRoundMergesAll ==
    (ks.rounds = 1 /\ ks.last \in {"round", "rehash"} /\ Undisturbed(ks)) =>
        /\ ks.pages_shared = 1
        /\ ks.pages_sharing = NumVP - 1
        /\ \A a, b \in VPages : ks.pte[a].f = ks.pte[b].f

\* The first round has ended over identical pages of more than one area,
\* with pairs of areas counted in the inter-area table on the way.
C11_Witness ==
    /\ ks.rounds = 1
    /\ ks.last \in {"round", "rehash"}
    /\ Undisturbed(ks)
    /\ ks.paired
    /\ \E a, b \in VPages : SlotOf(a) # SlotOf(b) /\ ks.pte[a].f = ks.pte[b].f

\* C12: when the scan of a page meets a true collision in the unstable tree
\* and nothing disturbs the step, no pte is repointed, the item of the page
\* and the items it collided with are siblings in one unstable tree node,
\* each keyed by the hash_max of its page, and rshash_neg has grown by
\* memcmp_cost + (HASH_STRENGTH_MAX - hash_strength).
C12_CollisionSiblings ==
    (ks.pc = "idle" /\ ks.coll # NoItem /\ ks.last \in {"scan", "two_merge"}) =>
        /\ ~ks.repointed
        /\ ks.item[ks.coll].unstable
        /\ ks.item[ks.coll].tree_node \in ks.uroot
        /\ \E m \in ks.utn[ks.item[ks.coll].tree_node].members : m # ks.coll
        /\ \A m \in ks.utn[ks.item[ks.coll].tree_node].members :
              ks.item[m].hash_max =
                  page_hash_max(ks, ks.item[m].page,
                                ks.utn[ks.item[ks.coll].tree_node].hash)
        /\ ks.neg = memcmp_cost + (HASH_STRENGTH_MAX - ks.hash_strength)

\* C16: no failed allocation on the scan path trips an assertion: after a
\* failure of alloc_rmap_item, alloc_tree_node, alloc_stable_node,
\* alloc_node_vma or of the allocation of an rmap-pool page the scanner is
\* still running.
C16_NoFailureEscapes == ~ks.alloc_bug

\* C18: every change the scanner makes to the NodeVma and rmap lists of a
\* stable node whose page is live is made with the page lock of that page
\* held.
C18_ListsUnderPageLock == ~ks.unlocked_list

\* C19: the scanner takes no anon_vma lock while it holds a page lock.
C19_NoAnonLockUnderPageLock == ~ks.anon_locked

\* The stable nodes that are allocated and linked in the current stable tree
\* with no NodeVma left.
EmptyLinked(s) ==
    {n \in InStableTree(s) : s.snode[n].live /\ s.snode[n].hlist = <<>>}

\* C15 (as stated): between scanner steps no stable node with an empty
\* NodeVma list is linked in the stable tree.
C15_NoEmptyNodeLinked == ks.pc = "idle" => EmptyLinked(ks) = {}

\* C15 (amended): a stable node of the tree whose page still carries the
\* marker and that holds items before a step neither leaves the tree nor is
\* freed in a step that empties its NodeVma list: remove_rmap_item_from_tree
\* takes the last item out, decrements pages_shared and leaves the node
\* linked.
C15_EmptiedNodeStays ==
    [][\A n \in NodeIds :
          (/\ ks.snode[n].live
           /\ n \in InStableTree(ks)
           /\ ks.snode[n].hlist # <<>>
           /\ page_has_key(ks, ks.snode[n].kpfn, n)
           /\ page_has_key(ks', ks.snode[n].kpfn, n)
           /\ ks'.snode[n].hlist = <<>>)
          => /\ ks'.snode[n].live
             /\ n \in InStableTree(ks')]_vars

\* A node that held merged items stands in the tree with an empty list while
\* its page is still a KSM page, and no item is counted as shared.
C15_Witness ==
    /\ ks.pc = "idle"
    /\ ks.pages_shared = 0
    /\ \E n \in EmptyLinked(ks) : page_has_key(ks, ks.snode[n].kpfn, n)

\* C20: while the memory notifier holds the scanner mutex, between
\* MEM_GOING_OFFLINE and MEM_OFFLINE or MEM_CANCEL_OFFLINE, the scanner is
\* in no scan step, and when MEM_OFFLINE has returned no stable node of the
\* stable tree, at either level, has its frame number in the range taken
\* offline.
C20_OfflineQuiesceAndPrune ==
    /\ ks.offlining => ks.pc = "idle"
    /\ ks.last = "mem_offline" =>
          \A n \in InStableTree(ks) :
             ks.snode[n].live => ~InRange(ks.snode[n].kpfn, ks.offrange)

\* C13 (as stated): at a round boundary with thrash_threshold = T > 0, an
\* area with pages_cowed * 100 / pages_merged > T has dedup_ratio 0 and is on
\* rung 0 when round_update_ladder() has returned, whatever rung it was on.
C13_ThrasherAtBottom ==
    ld.last = "round" /\ ~ld.bug =>
        \A a \in ld.thrashed : ld.ratio[a] = 0 /\ RungOf(ld, a) = 0

\* C13 (amended): at a round boundary with thrash_threshold = T > 0, an area
\* with pages_cowed * 100 / pages_merged > T has dedup_ratio 0 and is moved
\* one rung down: from rung r > 0 it is on rung r - 1 when
\* round_update_ladder() has returned, from rung 0 it stays on rung 0.
C13_ThrasherOneRungDown ==
    ld.last = "round" /\ ~ld.bug =>
        \A a \in ld.thrashed :
           /\ ld.ratio[a] = 0
           /\ RungOf(ld, a) = IF ld.was[a] = 0 THEN 0 ELSE ld.was[a] - 1

C13_Witness ==
    /\ ld.last = "round"
    /\ ~ld.bug
    /\ \E a \in ld.thrashed : ld.was[a] = 2 /\ RungOf(ld, a) = 1

\* C14: once ksm_remove_vma() has returned for an admitted area the scanner
\* scans no page of it and reads nothing through its vma, and an area that
\* the scanner has drained from the delete list is on no rung and not in the
\* inter-area table.
C14_RemovedAreaUntouched ==
    /\ ~ld.scanned_removed
    /\ ld.freed_read = {}
    /\ \A a \in Areas :
          ld.st[a] = "gone" => a \notin OnLadder(ld) /\ a \notin InTable(ld)

\* the first slot after slot a in list l that belongs to another process
\* than mm, the list head if there is none
NextOfOtherMm(l, a, mm) ==
    LET after == {i \in (ListPos(l, a) + 1)..Len(l) : MmOf(l[i]) # mm}
    IN  IF after = {} THEN NoArea ELSE l[CHOOSE i \in after : \A j \in after : i <= j]

\* C17: the scanner holds no mmap_sem while it stands at the busy label, and
\* the step it takes there, after a failed trylock or with an exiting
\* process, moves the cursor of the rung to the next area of another process
\* and tries that one, or leaves the rung with the cursor in place if no such
\* area follows; it scans no page and takes no mmap_sem.
C17_BusySkipsProcess ==
    [][ld.pc = "busy" /\ ld'.pc # "busy" =>
          LET r == ld.rung
              nxt == NextOfOtherMm(ld.list[r], ld.from, ld.busy_mm)
          IN  /\ \A m \in Mms : ld.sem[m] # "ksm" /\ ld'.sem[m] # "ksm"
              /\ ld'.scanned = ld.scanned
              /\ IF nxt = NoArea
                 THEN ld'.pc = "top" /\ ld'.cur[r] = ld.cur[r]
                 ELSE ld'.pc = "rescan" /\ ld'.cur[r] = nxt]_vars

(***************************************************************************)
(* The hash-strength controller.                                           *)
(***************************************************************************)
\* C21: whenever the neg ratio of the round (100 * neg / pos, and 100 when
\* pos is 0 or neg > pos) is above 90, the judgement of the round boundary
\* is GO_UP, and in state STILL such a round raises the hash strength
\* (unless it is HASH_STRENGTH_MAX already).
C21_HighNegRatioGoesUp ==
    (rh.pc = "scan" /\ rh.judged # "none" /\ rh.ratio > 90) =>
        /\ rh.judged = "GO_UP"
        /\ rh.was = "STILL" =>
              /\ rh.hash_strength >= rh.was_strength
              /\ rh.was_strength < StrengthMax => rh.hash_strength > rh.was_strength

\* the changes of state that the controller is allowed
RshashEdges ==
    {<<"NEW", "STILL">>, <<"STILL", "TRYDOWN">>, <<"TRYDOWN", "TRYUP">>,
     <<"TRYUP", "PRE_STILL">>, <<"PRE_STILL", "STILL">>}

\* rounds of the lookup window whose benefit was below stable_benefit
BelowRounds(w) == Cardinality({i \in 1..Len(w) : w[i]})

ClipStrength(x) == IF x < 1 THEN 1 ELSE IF x > StrengthMax THEN StrengthMax ELSE x

\* the delta that a step in state STILL uses: 0 when the direction turned
StillDelta(c, dir) == IF c.pre_direct # dir THEN 0 ELSE c.hash_strength_delta

\* C23: after any sequence of round boundaries hash_strength is in
\* [1, HASH_STRENGTH_MAX] and hash_strength_delta in [0, 5]; a step of the
\* strength in state STILL, TRYDOWN or TRYUP moves it by 2^delta, clipped
\* to that interval, where delta is hash_strength_delta as the step finds
\* it (0 after a change of direction in STILL).
C23_StrengthInRange ==
    [][/\ rh'.hash_strength \in 1..StrengthMax
       /\ rh'.hash_strength_delta \in 0..HASH_STRENGTH_DELTA_MAX
       /\ (rh.pc = "boundary" /\ rh.state = "STILL") =>
             rh'.hash_strength =
                CASE rh'.judged = "GO_UP" ->
                        ClipStrength(rh.hash_strength + Pow2(StillDelta(rh, "GO_UP")))
                  [] rh'.judged = "GO_DOWN" ->
                        ClipStrength(rh.hash_strength - Pow2(StillDelta(rh, "GO_DOWN")))
                  [] rh'.judged = "OBSCURE" ->
                        ClipStrength(rh.hash_strength - Pow2(rh.hash_strength_delta))
                  [] OTHER -> rh.hash_strength
       /\ (rh.pc = "boundary" /\ rh.state = "TRYDOWN" /\ rh'.state = "TRYDOWN"
             /\ rh.scanned > 0) =>
             rh'.hash_strength = ClipStrength(rh.hash_strength - Pow2(rh.hash_strength_delta))
       /\ (rh.pc = "boundary" /\ rh.state = "TRYUP" /\ rh'.state = "TRYUP"
             /\ rh.scanned > 0) =>
             rh'.hash_strength = ClipStrength(rh.hash_strength + Pow2(rh.hash_strength_delta))]_vars

\* A step that was not clipped: the strength has just gone down by 2 in
\* state STILL, with delta 1.
C23_Witness ==
    /\ rh.pc = "scan"
    /\ rh.was = "STILL"
    /\ rh.state = "STILL"
    /\ rh.judged = "GO_DOWN"
    /\ rh.was_delta = 1
    /\ rh.hash_strength = rh.was_strength - 2

\* C24: a round boundary that changes the hash strength resets rshash_pos
\* and rshash_neg to 0 and calls stable_tree_delta_hash from the previous
\* strength in the same step, before the next round scans a page; scanning
\* never changes the strength; a boundary that leaves the strength as it
\* is does not call stable_tree_delta_hash, the only place that swaps the
\* roots of the stable tree.
C24_RehashOnChange ==
    [][/\ rh.pc = "scan" => rh'.hash_strength = rh.hash_strength
       /\ (rh.pc = "boundary" /\ rh'.hash_strength # rh.hash_strength) =>
             /\ rh'.rshash_pos = 0
             /\ rh'.rshash_neg = 0
             /\ rh'.rehash_from = rh.hash_strength
             /\ rh'.pc = "scan"
       /\ (rh.pc = "boundary" /\ rh'.hash_strength = rh.hash_strength) =>
             rh'.rehash_from = 0]_vars

\* A round that had collected costs on both sides (its neg ratio is neither
\* 0 nor 100) has ended with a change of the strength.
C24_Witness ==
    /\ rh.pc = "scan"
    /\ rh.ratio > 0
    /\ rh.ratio < 100
    /\ rh.hash_strength # rh.was_strength
    /\ rh.rehash_from = rh.was_strength
    /\ rh.rshash_pos = 0
    /\ rh.rshash_neg = 0

(***************************************************************************)
(* The scan ladder: round end, moves, membership.                          *)
(***************************************************************************)
\* C25: ksm_do_scan runs round_update_ladder (and increments the scan
\* round) only from a state in which every rung is empty or has
\* round_finished set, and in which not all rungs are empty.
C25_RoundEndsWhenAllFinished ==
    [][ld'.last = "round" =>
          /\ \A r \in Rungs : ld.list[r] = <<>> \/ ld.fin[r]
          /\ OnLadder(ld) # {}]_vars

\* the mean that round_update_ladder compares with: the sum of the ratios
\* of the round over the number of areas on the ladder
RatioMean(L) ==
    SeqSum(L.ratio, [i \in 1..NumAreas |-> i]) \div Cardinality(OnLadder(L))

\* the rung above and the rung below, with the ends of the ladder kept
RungAbove(r) == IF r = ksm_scan_ladder_size - 1 THEN r ELSE r + 1
RungBelow(r) == IF r = 0 THEN 0 ELSE r - 1

\* C26: at a round boundary an area that was scanned in the round goes one
\* rung up if its dedup_ratio is non-zero and at least the mean of the
\* round (and stays on the top rung if it is there), and one rung down
\* otherwise (staying on rung 0); no area moves further than one rung, an
\* area that was not scanned stays, and an area with dedup_ratio 0 is never
\* promoted.
C26_MoveByMean ==
    [][(ld'.last = "round" /\ ~ld'.bug) =>
          \A a \in OnLadder(ld') :
              /\ a \in OnLadder(ld)
              /\ RungOf(ld', a) =
                    IF ld.scanned[a] \/ a \in InTable(ld)
                    THEN IF ld'.ratio[a] # 0 /\ ld'.ratio[a] >= RatioMean(ld')
                         THEN RungAbove(RungOf(ld, a))
                         ELSE RungBelow(RungOf(ld, a))
                    ELSE RungOf(ld, a)
              /\ ld'.ratio[a] = 0 => RungOf(ld', a) <= RungOf(ld, a)]_vars

\* One round boundary has moved an area up from rung 0 and another area
\* down from rung 1.
C26_Witness ==
    /\ ld.last = "round"
    /\ ~ld.bug
    /\ \E a, b \in OnLadder(ld) :
          /\ ld.ratio[a] # 0
          /\ ld.was[a] = 0
          /\ RungOf(ld, a) = 1
          /\ ld.was[b] = 1
          /\ RungOf(ld, b) = 0

\* the rungs whose list holds the area, and how often a list holds it
RungsHolding(L, a) == {r \in Rungs : a \in InList(L.list[r])}
TimesIn(l, a) == Cardinality({i \in 1..Len(l) : l[i] = a})

\* C27: after any sequence of admissions, promotions, demotions and
\* removals every admitted area is once on the list of exactly one rung and
\* slot->rung names that rung, vma_num of every rung is the length of its
\* list and the number of admitted areas whose slot->rung it is, and an
\* area whose admission failed (too small, or a failed pool allocation) is
\* on no rung.
C27_OneRungEach ==
    ~ld.bug =>
        /\ \A a \in Areas :
              /\ ld.st[a] \in {"in", "del"} =>
                    /\ RungsHolding(ld, a) = {ld.srung[a]}
                    /\ TimesIn(ld.list[ld.srung[a]], a) = 1
              /\ ld.st[a] = "noadd" => RungsHolding(ld, a) = {}
        /\ \A r \in Rungs :
              /\ ld.vma_num[r] = Len(ld.list[r])
              /\ ld.vma_num[r] =
                    Cardinality({a \in Areas : ld.st[a] \in {"in", "del"} /\ ld.srung[a] = r})

RECURSIVE Power(_, _)
Power(b, n) == IF n = 0 THEN 1 ELSE b * Power(b, n - 1)

\* ceil(log_delta(KSM_SCAN_RATIO_MAX / m)): for m up to KSM_SCAN_RATIO_MAX
\* the least k with m * delta^k >= KSM_SCAN_RATIO_MAX, above it minus the
\* greatest j with KSM_SCAN_RATIO_MAX * delta^j <= m
CeilLog(m, d) ==
    IF m <= KSM_SCAN_RATIO_MAX
    THEN CHOOSE k \in 0..KSM_SCAN_RATIO_MAX :
            /\ m * Power(d, k) >= KSM_SCAN_RATIO_MAX
            /\ \A j \in 0..(k - 1) : m * Power(d, j) < KSM_SCAN_RATIO_MAX
    ELSE 0 - (CHOOSE j \in 0..m :
                 /\ KSM_SCAN_RATIO_MAX * Power(d, j) <= m
                 /\ KSM_SCAN_RATIO_MAX * Power(d, j + 1) > m)

\* x is a power of d (d^0 included)
RECURSIVE IsPowerOf(_, _)
IsPowerOf(x, d) == x = 1 \/ (x > 1 /\ x % d = 0 /\ IsPowerOf(x \div d, d))

NoRepeat(s) == \A i, j \in 1..Len(s) : i # j => s[i] # s[j]

\* s is the beginning of t
StartOf(s, t) == Len(s) <= Len(t) /\ \A i \in 1..Len(s) : s[i] = t[i]

\* the pass over the area is complete
PassDone(v) == v.pages_scanned # 0 /\ v.pages_scanned % v.pages = 0

\* C30 as stated: in every pass each page of the area is selected exactly
\* once, with items in the entries, with pools freed and after a sort, and
\* the order is re-randomised at the start of every pass.
C30_PermutationEveryPassRandom ==
    /\ ~vo.bug
    /\ NoRepeat(vo.order)
    /\ PassDone(vo) => {vo.order[i] : i \in 1..Len(vo.order)} = 0..(vo.pages - 1)
    /\ vo.pages > 1 => vo.need_rerand

\* C30 as the code has it: in every pass each page of the area is selected
\* exactly once, with items in the entries, with pools freed and after a
\* sort; the order is drawn anew in the first pass and in a pass that
\* starts with a sort (a pool was freed in the pass before), and every
\* other pass repeats the order of the pass before it.
C30_PermutationKeptUntilSort ==
    /\ ~vo.bug
    /\ NoRepeat(vo.order)
    /\ Len(vo.order) = (IF PassDone(vo) THEN vo.pages ELSE vo.pages_scanned % vo.pages)
    /\ PassDone(vo) => {vo.order[i] : i \in 1..Len(vo.order)} = 0..(vo.pages - 1)
    /\ vo.need_rerand <=> (vo.pages_scanned <= vo.pages \/ vo.sorted)
    /\ ~vo.need_rerand => StartOf(vo.order, vo.prev)

\* The third pass over an area of two pools is complete: a pool was freed
\* in the pass before it, so it started with the sort and was drawn anew,
\* not in the order of the addresses, and it left rmap_items in entries
\* other than their own.
C30_Witness ==
    /\ vo.pages = OrderPages
    /\ vo.pages_scanned = 3 * vo.pages
    /\ vo.sorted
    /\ vo.need_rerand
    /\ \E i \in 1..Len(vo.order) : vo.order[i] # i - 1
    /\ \E i \in DOMAIN vo.entry : vo.entry[i].k = "item" /\ vo.entry[i].a # i

\* the NodeVma list hl is strictly ascending by the key of its areas
HlistAscending(hl) == \A i, j \in DOMAIN hl : i < j => hl[i].slot < hl[j].slot

\* every rmap_item of a NodeVma of hl is an item of the NodeVma's area
HlistOwnItems(hl) == \A i \in DOMAIN hl : \A vp \in hl[i].items : SlotOf(vp) = hl[i].slot

\* C31: after any sequence of stable_tree_append calls and removals the
\* NodeVma list of every stable node is strictly ascending by area key (so
\* it holds at most one NodeVma per area), no NodeVma is empty, and every
\* rmap_item of a NodeVma belongs to the NodeVma's area.
C31_NodeVmaListSorted ==
    \A n \in DOMAIN ks.snode :
        /\ HlistAscending(ks.snode[n].hlist)
        /\ HlistOwnItems(ks.snode[n].hlist)
        /\ \A i \in DOMAIN ks.snode[n].hlist : ks.snode[n].hlist[i].items # {}

\* A live stable node has a NodeVma of each of two areas, and an item that
\* was appended to the node has been removed from it.
C31_Witness ==
    \E n \in DOMAIN ks.snode :
        /\ ks.snode[n].live
        /\ Len(ks.snode[n].hlist) = 2
        /\ \E vp \in VPages :
              /\ ks.item[vp].head = n
              /\ ~ks.item[vp].stable
              /\ \A i \in 1..2 : vp \notin ks.snode[n].hlist[i].items

\* the inter-area counter of the areas a and b; an area that is not in the
\* inter-area table has no counter, which reads as 0
PairCount(s, a, b) ==
    IF s.slot[a].ksm_index = -1 \/ s.slot[b].ksm_index = -1
    THEN 0
    ELSE s.intertab[intertab_vma_offset(s.slot[a].ksm_index, s.slot[b].ksm_index)]

\* the areas whose NodeVma on stable node n was updated in the current round
UpdatedAreas(s, n) ==
    {s.snode[n].hlist[i].slot : i \in {j \in DOMAIN s.snode[n].hlist :
                                   s.snode[n].hlist[j].last_update = s.scan_round}}

\* what one stable_tree_append of vp to node n, from state s to state t,
\* does to the counters of the pairs of two different areas
AppendEffect(s, t, vp, n) ==
    \A a, b \in DOMAIN s.slot :
        a # b =>
            PairCount(t, a, b) = PairCount(s, a, b) +
                (IF /\ SlotOf(vp) \notin UpdatedAreas(s, n)
                    /\ \/ a = SlotOf(vp) /\ b \in UpdatedAreas(s, n)
                       \/ b = SlotOf(vp) /\ a \in UpdatedAreas(s, n)
                 THEN 1 ELSE 0)

\* the step is a stable_tree_append of the item vp that has returned
AppendedTo(vp) ==
    /\ ~ks.item[vp].stable
    /\ ks'.item[vp].stable
    /\ ~ks'.bug

\* C32: a stable_tree_append to a node that has a NodeVma of the same area
\* updated in the current round leaves every counter of a pair of two
\* different areas as it was; otherwise the counter of (this area, A) grows
\* by exactly 1 for every other area A whose NodeVma on the node was updated
\* in the current round, before or after the place of this area in the
\* list, and no other counter of two different areas changes.
C32_InnerDuplicateCancelled ==
    [][\A vp \in AppendItems :
          AppendedTo(vp) => AppendEffect(ks, ks', vp, ks'.item[vp].head)]_vars

\* In the second round the stable node has NodeVmas of three areas, the
\* first and the last updated in this round and the middle one not.  An
\* item of the first area and both items of the last area were appended in
\* this round, one of them after a removal and as an inner duplicate; the
\* pair of the first and the last area is counted once, the pairs with the
\* middle area are not counted.
C32_Witness ==
    /\ ks.last = "append"
    /\ ~ks.bug
    /\ ks.scan_round = 2
    /\ ks.events = 1
    /\ Len(ks.snode[1].hlist) = 3
    /\ ks.snode[1].hlist[1].last_update = 2
    /\ ks.snode[1].hlist[2].last_update = 1
    /\ ks.snode[1].hlist[3].last_update = 2
    /\ \E vp \in ks.snode[1].hlist[1].items : ks.item[vp].append_round = 2
    /\ Cardinality({vp \in ks.snode[1].hlist[3].items :
                       ks.item[vp].append_round = 2}) = 2
    /\ PairCount(ks, 1, 3) = 1
    /\ PairCount(ks, 1, 2) = 0
    /\ PairCount(ks, 2, 3) = 0

\* the rmap_items with UNSTABLE_FLAG that were inserted in the current round
CurrentUnstable(s) ==
    {vp \in VPages : s.item[vp].unstable /\ s.item[vp].append_round = s.scan_round}

\* C33: remove_rmap_item_from_tree erases an unstable item only when its
\* append_round is the current round, so over all rounds, removals and
\* area teardowns no tree node that was freed is erased from, decremented
\* or freed again; an unstable item of the current round points to a tree
\* node that is linked in the current unstable tree and holds it, and the
\* tree nodes hold no other items.
C33_StaleItemsLeftAlone ==
    /\ ~ks.uaf
    /\ \A vp \in CurrentUnstable(ks) :
          /\ ks.item[vp].tree_node \in ks.uroot
          /\ ks.item[vp].tree_node \in ks.ulist
          /\ vp \in ks.utn[ks.item[vp].tree_node].members
    /\ \A vp \in VPages : ks.item[vp].unstable => ks.item[vp].append_round <= ks.scan_round
    /\ \A t \in UTreeIds :
          /\ ks.utn[t].members \subseteq CurrentUnstable(ks)
          /\ \A vp \in ks.utn[t].members : ks.item[vp].tree_node = t
          /\ t \notin ks.ulist => ks.utn[t] = TreeNode0

\* An area has just been torn down in a later round; an item of the other
\* area still carries UNSTABLE_FLAG from an earlier round, next to the
\* unstable tree of the current round, which holds an item.
C33_Witness ==
    /\ ks.scan_round > 1
    /\ ks.last = "teardown"
    /\ ~ks.bug
    /\ ks.uroot # {}
    /\ \E vp \in VPages :
          ks.item[vp].unstable /\ ks.item[vp].append_round < ks.scan_round

\* the step is the second half of try_to_merge_two_pages() and the merge
\* has failed: the first page was write-protected and marked PageKsm
TwoMergeFailed ==
    /\ ks.pc = "two_wp"
    /\ ks'.last = "two_merge"
    /\ ks'.pc # "insert"

\* C35: when try_to_merge_two_pages fails after it write-protected the
\* first page and marked it PageKsm, and the pte of the first page is still
\* the write-protected value, the pte gets its original value back and
\* page->mapping the saved mapping; the page stays marked PageKsm with a
\* NULL stable node only when its pte was changed in between.
C35_FailedMergeRestored ==
    [][TwoMergeFailed =>
          IF ks.pte[ks.loc.vp] = ks.loc.wprt_pte1
          THEN /\ ks'.pte[ks.loc.vp] = ks.loc.orig_pte1
               /\ ks'.pkind[ks.item[ks.loc.vp].page] = ks.loc.saved_kind
               /\ ks'.pnode[ks.item[ks.loc.vp].page] = ks.loc.saved_node
          ELSE ks'.pte[ks.loc.vp] = ks.pte[ks.loc.vp]]_vars

\* A merge of two pages has failed on a true collision: the page of the
\* scanned item is mapped writable again and is an anonymous page, and no
\* page is left marked PageKsm with a NULL stable node.
C35_Witness ==
    /\ ks.last = "two_merge"
    /\ ks.pc = "idle"
    /\ ks.coll # NoItem
    /\ ks.pte[ks.coll] = [f |-> ks.item[ks.coll].page, w |-> TRUE]
    /\ ks.pkind[ks.item[ks.coll].page] = "anon"
    /\ \A f \in Frames : ks.pkind[f] = "ksm" => ks.pnode[f] # NoNode

\* the read locks and the page references the scanner holds at its place:
\* the lock of the scanned area and the reference on the scanned page, the
\* lock and the reference of the candidate of the unstable tree, and the
\* reference on the page found in the stable tree
LocksAt(s) ==
    [sl \in Slots |->
        (IF s.loc.vp # NoItem /\ SlotOf(s.loc.vp) = sl THEN 1 ELSE 0) +
        (IF s.loc.tree # NoItem /\ SlotOf(s.loc.tree) = sl THEN 1 ELSE 0)]

RefsAt(s) ==
    [f \in Frames |->
        (IF s.loc.vp # NoItem /\ s.item[s.loc.vp].page = f THEN 1 ELSE 0) +
        (IF s.loc.tree # NoItem /\ s.item[s.loc.tree].page = f THEN 1 ELSE 0) +
        (IF s.loc.kpage = f THEN 1 ELSE 0)]

\* C34: the scanner holds the memory-map read lock of the candidate's area
\* and a reference on the candidate's page exactly while it works on a
\* candidate that unstable_tree_search_insert returned; when the scan of a
\* page has ended, on every path, it holds no lock and no reference.
C34_LockAndReferenceBalance ==
    ~ks.bug =>
        /\ ks.mmap = LocksAt(ks)
        /\ ks.ref = RefsAt(ks)
        /\ ks.loc.tree # NoItem <=> ks.pc \in {"two", "two_wp", "insert"}
        /\ ks.pc = "idle" => ks.loc = Loc0

\* The scan of a page has ended with a merge of two pages of different
\* areas into a new stable node; no lock and no reference is held.
C34_Witness ==
    /\ ks.pc = "idle"
    /\ ks.last = "insert"
    /\ ~ks.bug
    /\ \A sl \in Slots : ks.mmap[sl] = 0
    /\ \A f \in Frames : ks.ref[f] = 0
    /\ \E n \in NodeIds : ks.snode[n].live /\ Len(ks.snode[n].hlist) = 2

\* the areas that are in the inter-area table
Registered(s) == {a \in DOMAIN s.slot : s.slot[a].ksm_index # -1}

\* C36: the inter-area table tracks KSM_DUP_VMA_MAX areas at a time: an
\* assertion of enter_inter_vma_table fails only when KSM_DUP_VMA_MAX areas
\* were registered before the call, no counter outside ksm_inter_vma_table
\* is written, and every registered area has an index of ksm_vma_table that
\* no other registered area has.
C36_TableHoldsMax ==
    /\ ks.bug => ks.table_num > TableMax
    /\ \A o \in DOMAIN ks.intertab : o >= InterTableSize => ks.intertab[o] = 0
    /\ \A a \in Registered(ks) :
          /\ ks.slot[a].ksm_index \in DOMAIN ks.vma_table
          /\ ks.vma_table[ks.slot[a].ksm_index] = a

\* C37: the assertion of page_hash that rshash_pos does not decrease when
\* a scanned page is credited never fails, whatever strength in
\* [1, HASH_STRENGTH_MAX] the controller has reached.
C37_PosNeverDecreases == ~rh.pos_bug

\* C38: whenever round_update_ladder has run, ksm_vma_slot_num was above 0
\* when it divided the sum of the dedup ratios by it, also when the host
\* removed the last areas and the scanner drained the delete list between
\* its test of the rungs and the round update.
C38_RoundHasAreas == ld.last = "round" => ld.slot_num > 0

\* C39: every call of ksm_do_scan terminates: whenever the scanner is
\* inside ksm_do_scan it is later back asleep, whatever the ladder, the
\* budgets, the contention on the memory-map locks, the exiting processes
\* and the removals of areas.
C39_ScanTerminates == (ld.pc # "sleep") ~> (ld.pc = "sleep")

\* the first-level tree nodes linked in the stable tree that have no child
EmptyTreeNodes(s) ==
    {t \in s.sroot[s.rootp] : s.stn[t].count < 1 \/ s.stn[t].members = {}}

\* C40: between scanner steps every first-level tree node linked in the
\* stable tree has at least one child (count >= 1 and a non-empty sub-tree),
\* so that the non-empty-sub-tree assertions of stable_tree_search() and
\* stable_subtree_insert() cannot fire.
C40_TreeNodesHaveChildren == ks.pc = "idle" => EmptyTreeNodes(ks) = {}
====
